---------------------------- MODULE Spec2Model ----------------------------
(***************************************************************************)
(* Deduplication / publishing tracker (utils/advanced_deduplication.mjs)   *)
(* and the Phase 3 publisher (phase3/publish_early_detection.mjs) of the   *)
(* crypto early-detection pipeline.                                        *)
(*                                                                         *)
(* Strings are sequences of one-character strings, so that lowercasing,    *)
(* regex replacement, split, includes and hashing are computed character   *)
(* by character as the JavaScript does.  Timestamps are integers in hours. *)
(***************************************************************************)
EXTENDS Integers, Sequences, FiniteSets, TLC

VARIABLES
  tracker,        \* AdvancedDeduplication.tracker of the live instance
  now,            \* wall clock (hours)
  ticks,          \* number of clock advances so far
  ret,            \* result of the last tracker call (tracker-level runs)
  calls,          \* number of tracker calls made so far (tracker-level runs)
  everPublished,  \* signals markAsPublished was applied to on this instance
  file,           \* data/deduplication_tracker.json
  pc,             \* position of publishEarlyDetection
  runs,           \* number of publishEarlyDetection runs started
  originalSignals,\* daily_signals.json of the run
  analyses,       \* analyses loaded by the run
  approved,       \* dedupResult.approved of the run
  queue,          \* the four category loops, flattened: <<category, analysis>>
  idx,            \* index of the current loop item in queue
  publishResults, \* publishResults of the run
  guardSeen,      \* composite key was in `published` at the last pre-send check
  attempts,       \* sends started in this run
  pubMarks,       \* keys markAsPublished was applied to in this run
  procMarks,      \* keys markAsProcessed was applied to in this run
  collection,     \* a CollectionTracker instance: today, tracker.global, tracker.today
  collectionFiles,\* data/collection_tracker.json and data/<day>/collection_tracker.json
  analysisTracker,\* an AnalysisTracker instance: tracker.analyzed
  analysisFile,   \* data/analysis_tracker.json
  passed,         \* the batch of the last Phase 2 run and what it passed to the scorer
  analysisRuns,   \* number of Phase 2 runs so far
  dailySignals,   \* data/<day>/daily_signals.json: the signals of each day
  collectRun,     \* the last Phase 1 run: what the sources did and what it reports
  procs,          \* two publishEarlyDetection processes that may overlap
  send,           \* one call of sendToTelegramBot
  pipeline        \* one run of a pipeline entry point

trackerVars == <<tracker, now, ticks>>
apiVars == <<ret, calls, everPublished>>
runVars == <<file, pc, runs, originalSignals, analyses, approved, queue, idx,
             publishResults, guardSeen, attempts, pubMarks, procMarks>>
phase2Vars == <<analysisFile, passed, analysisRuns>>
phase1Vars == <<dailySignals, collectRun>>
ingestVars == <<collection, collectionFiles, analysisTracker, analysisFile,
                passed, analysisRuns, dailySignals, collectRun, procs, send, pipeline>>
vars == <<calls, tracker, now, ticks, ret, everPublished, file, pc, runs,
          originalSignals, analyses, approved, queue, idx, publishResults,
          guardSeen, attempts, pubMarks, procMarks, collection,
          collectionFiles, analysisTracker, analysisFile, passed,
          analysisRuns, dailySignals, collectRun, procs, send, pipeline>>

----------------------------------------------------------------------------
(* Bounds of the model *)

MaxCalls == 3       \* tracker calls per tracker-level behaviour
MaxTicks == 1       \* clock advances per behaviour
MaxRuns == 2        \* sequential publishEarlyDetection runs
MaxAnalyses == 2    \* analyses loaded by one run
MaxIngestCalls == 2 \* calls per ingestion-tracker behaviour
MaxDayTicks == 1    \* clock advances per ingestion-tracker behaviour
MaxPhase2Runs == 2  \* sequential analyzeAllSignals runs
MaxCollectRuns == 2 \* sequential collectData runs

----------------------------------------------------------------------------
(* JavaScript strings over printable ASCII *)

\* code points 32..126 in order; the double quote, the backslash and the
\* backtick, which a string literal here cannot hold, are held by names
Printable ==
  <<" ", "!", "QUOT", "#", "$", "%", "&", "'", "(", ")", "*", "+", ",", "-",
    ".", "/", "0", "1", "2", "3", "4", "5", "6", "7", "8", "9", ":", ";",
    "<", "=", ">", "?", "@", "A", "B", "C", "D", "E", "F", "G", "H", "I",
    "J", "K", "L", "M", "N", "O", "P", "Q", "R", "S", "T", "U", "V", "W",
    "X", "Y", "Z", "[", "BACKSLASH", "]", "^", "_", "BACKTICK", "a", "b", "c", "d", "e",
    "f", "g", "h", "i", "j", "k", "l", "m", "n", "o", "p", "q", "r", "s",
    "t", "u", "v", "w", "x", "y", "z", "{", "|", "}", "~">>

CodeTable ==
  [c \in {Printable[i] : i \in 1..Len(Printable)} |->
     31 + CHOOSE i \in 1..Len(Printable) : Printable[i] = c]

\* String.prototype.charCodeAt for one character
charCodeAt(c) == CodeTable[c]

fromCharCode(n) == Printable[n - 31]

isUpper(c) == charCodeAt(c) \in 65..90
isLowerAlnum(c) == charCodeAt(c) \in (48..57) \cup (97..122)
\* the regex class \w
isWord(c) == charCodeAt(c) \in (48..57) \cup (65..90) \cup (97..122) \cup {95}
\* the regex class \s (space is the only whitespace of printable ASCII)
isSpace(c) == c = " "

toLowerCase(s) ==
  [i \in 1..Len(s) |-> IF isUpper(s[i]) THEN fromCharCode(charCodeAt(s[i]) + 32)
                                        ELSE s[i]]

\* s.split(c)[0]
splitFirst(s, c) ==
  LET hits == {i \in 1..Len(s) : s[i] = c}
  IN  IF hits = {} THEN s
      ELSE SubSeq(s, 1, (CHOOSE i \in hits : \A j \in hits : i <= j) - 1)

\* hay.includes(needle)
includes(hay, needle) ==
  \E i \in 0..(Len(hay) - Len(needle)) :
     SubSeq(hay, i + 1, i + Len(needle)) = needle

\* s.replace(/\s+/g, ' ')
RECURSIVE collapseSpaces(_)
collapseSpaces(s) ==
  IF Len(s) <= 1 THEN s
  ELSE IF isSpace(s[1]) /\ isSpace(s[2]) THEN collapseSpaces(Tail(s))
  ELSE <<s[1]>> \o collapseSpaces(Tail(s))

RECURSIVE trimLeft(_)
trimLeft(s) == IF s # <<>> /\ isSpace(s[1]) THEN trimLeft(Tail(s)) ELSE s

RECURSIVE trimRight(_)
trimRight(s) ==
  IF s # <<>> /\ isSpace(s[Len(s)]) THEN trimRight(SubSeq(s, 1, Len(s) - 1))
  ELSE s

trim(s) == trimRight(trimLeft(s))

\* toLowerCase().replace(/[^\w\s]/g,'').replace(/\s+/g,' ').trim()
normalizeText(s) ==
  trim(collapseSpaces(
    SelectSeq(toLowerCase(s), LAMBDA c : isWord(c) \/ isSpace(c))))

----------------------------------------------------------------------------
(* simpleHash: a 32-bit rolling hash printed in base 36.  The 32-bit value  *)
(* is kept as two 16-bit halves <<hi, lo>>.                                 *)

Half == 65536

\* ((hash << 5) - hash) + char, truncated to 32 bits by hash & hash
hashStep(h, code) ==
  LET lo == h[2] * 31 + code
      hi == h[1] * 31 + (lo \div Half)
  IN  <<hi % Half, lo % Half>>

RECURSIVE hashFold(_, _)
hashFold(h, s) ==
  IF s = <<>> THEN h ELSE hashFold(hashStep(h, charCodeAt(s[1])), Tail(s))

\* Math.abs of the signed 32-bit value, as an unsigned <<hi, lo>>
absInt32(h) ==
  IF h[1] < 32768 THEN h
  ELSE IF h[2] = 0 THEN <<(Half - h[1]) % Half, 0>>
  ELSE <<Half - 1 - h[1], Half - h[2]>>

Base36Digits ==
  <<"0", "1", "2", "3", "4", "5", "6", "7", "8", "9", "a", "b", "c", "d",
    "e", "f", "g", "h", "i", "j", "k", "l", "m", "n", "o", "p", "q", "r",
    "s", "t", "u", "v", "w", "x", "y", "z">>

\* Number.prototype.toString(36) of a non-negative integer <<hi, lo>>
RECURSIVE toString36(_)
toString36(n) ==
  LET qhi == n[1] \div 36
      cur == (n[1] % 36) * Half + n[2]
      qlo == cur \div 36
      digit == <<Base36Digits[(cur % 36) + 1]>>
  IN  IF qhi = 0 /\ qlo = 0 THEN digit ELSE toString36(<<qhi, qlo>>) \o digit

simpleHash(str) == toString36(absInt32(hashFold(<<0, 0>>, str)))

\* simpleHash of the normalised text
normalizedHash(text) == simpleHash(normalizeText(text))

\* the hashes of the sample texts, derived once
HashTable ==
  [text \in {<<"h", "i">>,
              <<"H", "i", "!">>,
              <<"y", "o">>,
              <<"y", "o", "l", "o">>,
              <<"y", "o", "l", "p">>,
              <<"F", "o">>,
              <<"f", "o", "!">>,
              <<"B", "a">>,
              <<"F", "o", " ", "-", " ", "L">>,
              <<"F", "o", " ", "-", " ", "I">>,
              <<"B", "a", " ", "-", " ", "U", "n", "k", "n", "o", "w", "n">>} |->
     normalizedHash(text)]

hashOfText(text) ==
  IF text \in DOMAIN HashTable THEN HashTable[text] ELSE normalizedHash(text)

generateContentHash(content) ==
  IF content = <<>> THEN <<>> ELSE hashOfText(content)

generateTitleHash(title) ==
  IF title = <<>> THEN <<>> ELSE hashOfText(title)

\* matches / maxLen, kept as the pair <<matches, maxLen>>; 1.0 is <<1, 1>>
calculateSimilarity(hash1, hash2) ==
  LET len1 == Len(hash1)
      len2 == Len(hash2)
      maxLen == IF len1 >= len2 THEN len1 ELSE len2
      minLen == IF len1 <= len2 THEN len1 ELSE len2
      matches == Cardinality({i \in 1..minLen : hash1[i] = hash2[i]})
  IN  IF maxLen = 0 THEN <<1, 1>> ELSE <<matches, maxLen>>

\* similarity >= threshold, the threshold given in hundredths
\* mutant: a similarity equal to the threshold does not count
strictlyMore(similarity, threshold) ==
  similarity[1] * 100 > threshold * similarity[2]

atLeast(similarity, threshold) ==
  similarity[1] * 100 >= threshold * similarity[2]

----------------------------------------------------------------------------
(* AdvancedDeduplication: the tracker and its operations.  A map is a       *)
(* function whose domain is its key set; an absent record field (the        *)
(* `status` markAsPublished does not write) is the value Undefined.         *)

Undefined == "undefined"
Unknown == <<"U", "n", "k", "n", "o", "w", "n">>

OneHour == 1
OneDay == 24

put(map, key, value) ==
  [k \in DOMAIN map \cup {key} |-> IF k = key THEN value ELSE map[k]]

\* the structure loadTracker falls back to; `absent` names the maps the
\* object lacks (a map that is absent reads as undefined)
freshTracker(time) ==
  [published |-> <<>>, content_hashes |-> <<>>, title_hashes |-> <<>>,
   source_hashes |-> <<>>, lastUpdated |-> time, absent |-> {}]

\* data/deduplication_tracker.json: absent, or holding text that JSON.parse
\* accepts or rejects
NoFile == [exists |-> FALSE, parseable |-> TRUE, data |-> freshTracker(0)]

\* mutant: the text of the file is taken over whether or not it parses
loadTrackerUnparsed(f, time) == IF f.exists THEN f.data ELSE freshTracker(time)

loadTracker(f, time) ==
  IF f.exists /\ f.parseable THEN f.data ELSE freshTracker(time)

saveTracker(t, time) ==
  [exists |-> TRUE, parseable |-> TRUE, data |-> [t EXCEPT !.lastUpdated = time]]

generateSignalKey(signal) ==
  LET source == toLowerCase(signal.source)
      link == toLowerCase(signal.link)
      title == SelectSeq(toLowerCase(signal.title), isLowerAlnum)
  IN  source \o <<":">> \o link \o <<":">> \o title

checkAlreadyPublished(t, signal) ==
  generateSignalKey(signal) \in DOMAIN t.published

cleanUrlOf(url) == toLowerCase(splitFirst(splitFirst(url, "?"), "#"))

\* mutant: the scan compares links for equality instead of containment
checkURLExactMatch(t, url) ==
  IF url = <<>> THEN FALSE
  ELSE LET cleanUrl == cleanUrlOf(url)
           hit(value) == value.link # <<>> /\ toLowerCase(value.link) = cleanUrl
       IN  \/ \E key \in DOMAIN t.published : hit(t.published[key])
           \/ \E key \in DOMAIN t.content_hashes : hit(t.content_hashes[key])

checkURLAlreadyProcessed(t, url) ==
  IF url = <<>> THEN FALSE
  ELSE LET cleanUrl == cleanUrlOf(url)
           hit(value) == value.link # <<>>
                         /\ includes(toLowerCase(value.link), cleanUrl)
       IN  \/ \E key \in DOMAIN t.published : hit(t.published[key])
           \/ \E key \in DOMAIN t.content_hashes : hit(t.content_hashes[key])

\* checkContentSimilarity / checkTitleSimilarity over one hash index; the
\* `similarity` and `original` of the result are not modelled
checkHashSimilarity(index, hash, threshold, exactReason, similarReason) ==
  IF hash \in DOMAIN index
    THEN [isDuplicate |-> TRUE, reason |-> exactReason]
  ELSE IF \E existingHash \in DOMAIN index :
            atLeast(calculateSimilarity(hash, existingHash), threshold)
    THEN [isDuplicate |-> TRUE, reason |-> similarReason]
  ELSE [isDuplicate |-> FALSE, reason |-> Undefined]

checkContentSimilarity(t, content, threshold) ==
  checkHashSimilarity(t.content_hashes, generateContentHash(content), threshold,
                      "exact_content_match", "similar_content")

checkTitleSimilarity(t, title, threshold) ==
  checkHashSimilarity(t.title_hashes, generateTitleHash(title), threshold,
                      "exact_title_match", "similar_title")

sourceKeyOf(source) == trim(toLowerCase(source))

\* mutant: the whole stored history is counted
checkSourceFrequencyStored(t, source, maxPerHour, time) ==
  LET sourceKey == sourceKeyOf(source)
      sourceHistory == IF sourceKey \in DOMAIN t.source_hashes
                       THEN t.source_hashes[sourceKey] ELSE <<>>
  IN  [isDuplicate |-> Len(sourceHistory) >= maxPerHour,
       reason |-> IF Len(sourceHistory) >= maxPerHour
                  THEN "source_frequency_limit" ELSE Undefined,
       count |-> Len(sourceHistory)]

checkSourceFrequency(t, source, maxPerHour, time) ==
  LET sourceKey == sourceKeyOf(source)
      sourceHistory == IF sourceKey \in DOMAIN t.source_hashes
                       THEN t.source_hashes[sourceKey] ELSE <<>>
      recentPosts == SelectSeq(sourceHistory, LAMBDA ts : ts > time - OneHour)
  IN  [isDuplicate |-> Len(recentPosts) >= maxPerHour,
       reason |-> IF Len(recentPosts) >= maxPerHour
                  THEN "source_frequency_limit" ELSE Undefined,
       count |-> Len(recentPosts)]

DefaultContentThreshold == 80
DefaultTitleThreshold == 90
DefaultMaxSourcePerHour == 3
DefaultMaxSignalsPerRun == 50

\* the defaults of checkDeduplication's options
DefaultOptions ==
  [contentSimilarityThreshold |-> DefaultContentThreshold,
   titleSimilarityThreshold |-> DefaultTitleThreshold,
   maxSourcePerHour |-> DefaultMaxSourcePerHour,
   maxSignalsPerRun |-> DefaultMaxSignalsPerRun,
   checkContent |-> TRUE, checkTitle |-> TRUE, checkSource |-> TRUE,
   checkAlreadyPublished |-> TRUE, checkURLProcessed |-> TRUE]

\* mutant: the already-published check is left out
checkDeduplicationUnguarded(t, signal, options, time) ==
  LET contentCheck ==
        checkContentSimilarity(t, signal.content, options.contentSimilarityThreshold)
      titleCheck ==
        checkTitleSimilarity(t, signal.title, options.titleSimilarityThreshold)
      sourceCheck ==
        checkSourceFrequency(t, signal.source, options.maxSourcePerHour, time)
      r3 == IF options.checkContent /\ signal.content # <<>> /\ contentCheck.isDuplicate
            THEN <<contentCheck.reason>> ELSE <<>>
      r4 == IF options.checkTitle /\ signal.title # <<>> /\ titleCheck.isDuplicate
            THEN <<titleCheck.reason>> ELSE <<>>
      r5 == IF options.checkSource /\ signal.source # <<>> /\ sourceCheck.isDuplicate
            THEN <<sourceCheck.reason>> ELSE <<>>
  IN  IF options.checkURLProcessed /\ signal.link # <<>>
         /\ checkURLAlreadyProcessed(t, signal.link)
        THEN [isDuplicate |-> TRUE, reasons |-> <<"url_already_processed">>]
      ELSE [isDuplicate |-> (r3 \o r4 \o r5) # <<>>, reasons |-> r3 \o r4 \o r5]

\* mutant: the content, title and source checks stop at the first hit
checkDeduplicationFirstHit(t, signal, options, time) ==
  LET contentCheck ==
        checkContentSimilarity(t, signal.content, options.contentSimilarityThreshold)
      titleCheck ==
        checkTitleSimilarity(t, signal.title, options.titleSimilarityThreshold)
      sourceCheck ==
        checkSourceFrequency(t, signal.source, options.maxSourcePerHour, time)
      r3 == IF options.checkContent /\ signal.content # <<>> /\ contentCheck.isDuplicate
            THEN <<contentCheck.reason>> ELSE <<>>
      r4 == IF options.checkTitle /\ signal.title # <<>> /\ titleCheck.isDuplicate
            THEN <<titleCheck.reason>> ELSE <<>>
      r5 == IF options.checkSource /\ signal.source # <<>> /\ sourceCheck.isDuplicate
            THEN <<sourceCheck.reason>> ELSE <<>>
      first == IF r3 # <<>> THEN r3 ELSE IF r4 # <<>> THEN r4 ELSE r5
  IN  IF options.checkURLProcessed /\ signal.link # <<>>
         /\ checkURLAlreadyProcessed(t, signal.link)
        THEN [isDuplicate |-> TRUE, reasons |-> <<"url_already_processed">>]
      ELSE IF options.checkAlreadyPublished /\ checkAlreadyPublished(t, signal)
        THEN [isDuplicate |-> TRUE, reasons |-> <<"already_published">>]
      ELSE [isDuplicate |-> first # <<>>, reasons |-> first]

\* the `details` of the result are not modelled
checkDeduplication(t, signal, options, time) ==
  LET contentCheck ==
        checkContentSimilarity(t, signal.content, options.contentSimilarityThreshold)
      titleCheck ==
        checkTitleSimilarity(t, signal.title, options.titleSimilarityThreshold)
      sourceCheck ==
        checkSourceFrequency(t, signal.source, options.maxSourcePerHour, time)
      r3 == IF options.checkContent /\ signal.content # <<>> /\ contentCheck.isDuplicate
            THEN <<contentCheck.reason>> ELSE <<>>
      r4 == IF options.checkTitle /\ signal.title # <<>> /\ titleCheck.isDuplicate
            THEN <<titleCheck.reason>> ELSE <<>>
      r5 == IF options.checkSource /\ signal.source # <<>> /\ sourceCheck.isDuplicate
            THEN <<sourceCheck.reason>> ELSE <<>>
  IN  IF options.checkURLProcessed /\ signal.link # <<>>
         /\ checkURLAlreadyProcessed(t, signal.link)
        THEN [isDuplicate |-> TRUE, reasons |-> <<"url_already_processed">>]
      ELSE IF options.checkAlreadyPublished /\ checkAlreadyPublished(t, signal)
        THEN [isDuplicate |-> TRUE, reasons |-> <<"already_published">>]
      ELSE [isDuplicate |-> (r3 \o r4 \o r5) # <<>>, reasons |-> r3 \o r4 \o r5]

markAsPublished(t, signal, time) ==
  LET signalKey == generateSignalKey(signal)
      published == put(t.published, signalKey,
                       [timestamp |-> time, source |-> signal.source,
                        title |-> signal.title, link |-> signal.link,
                        status |-> Undefined])
      content_hashes ==
        IF signal.content # <<>>
        THEN put(t.content_hashes, generateContentHash(signal.content),
                 [timestamp |-> time, source |-> signal.source,
                  title |-> signal.title, link |-> signal.link,
                  status |-> Undefined])
        ELSE t.content_hashes
      title_hashes ==
        IF signal.title # <<>>
        THEN put(t.title_hashes, generateTitleHash(signal.title),
                 [timestamp |-> time, source |-> signal.source,
                  link |-> signal.link])
        ELSE t.title_hashes
      sourceKey == sourceKeyOf(signal.source)
      history == IF sourceKey \in DOMAIN t.source_hashes
                 THEN t.source_hashes[sourceKey] ELSE <<>>
      source_hashes ==
        IF signal.source # <<>>
        THEN put(t.source_hashes, sourceKey,
                 SelectSeq(Append(history, time), LAMBDA ts : ts > time - OneDay))
        ELSE t.source_hashes
  IN  [t EXCEPT !.published = published, !.content_hashes = content_hashes,
                !.title_hashes = title_hashes, !.source_hashes = source_hashes]

\* mutant: the source list gets a timestamp, as in markAsPublished
markAsProcessedCounted(t, signal, time) ==
  LET marked == markAsPublished(t, signal, time)
      signalKey == generateSignalKey(signal)
  IN  [marked EXCEPT !.published[signalKey].status = "processed",
                     !.title_hashes = t.title_hashes]

\* mutant: `published` is rebuilt instead of extended
markAsProcessedFresh(t, signal, time) ==
  [t EXCEPT !.published =
     put(<<>>, generateSignalKey(signal),
         [timestamp |-> time, source |-> signal.source, title |-> signal.title,
          link |-> signal.link, status |-> "processed"])]

\* mutant: the record is written without its status
markAsProcessedUnstamped(t, signal, time) ==
  [t EXCEPT !.published =
     put(t.published, generateSignalKey(signal),
         [timestamp |-> time, source |-> signal.source, title |-> signal.title,
          link |-> signal.link, status |-> Undefined])]

markAsProcessed(t, signal, time) ==
  LET signalKey == generateSignalKey(signal)
      published == put(t.published, signalKey,
                       [timestamp |-> time, source |-> signal.source,
                        title |-> signal.title, link |-> signal.link,
                        status |-> "processed"])
      content_hashes ==
        IF signal.content # <<>>
        THEN put(t.content_hashes, generateContentHash(signal.content),
                 [timestamp |-> time, source |-> signal.source,
                  title |-> signal.title, link |-> signal.link,
                  status |-> "processed"])
        ELSE t.content_hashes
  IN  [t EXCEPT !.published = published, !.content_hashes = content_hashes]

\* the three maps of the tracker besides `published`
MapNames == {"content_hashes", "title_hashes", "source_hashes"}

\* what the reset script writes to data/deduplication_tracker.json:
\* published, contentHashes, titleHashes and lastUpdated, none of the maps
\* the tracker reads
resetTracker(time) == [freshTracker(time) EXCEPT !.absent = MapNames]

DedupOps ==
  {"checkURLAlreadyProcessed", "checkContentSimilarity", "checkTitleSimilarity",
   "checkDeduplication", "markAsProcessed", "markAsPublished"}

\* the call raises a TypeError: a map that is undefined is indexed, or
\* handed to Object.entries.  The string checks get the link, the content
\* and the title of the signal.
raises(t, op, signal) ==
  LET noContent == "content_hashes" \in t.absent
      noTitle == "title_hashes" \in t.absent
      urlRaises == /\ signal.link # <<>>
                   /\ ~checkURLAlreadyProcessed(t, signal.link)
                   /\ noContent
  IN  CASE op = "checkContentSimilarity" -> noContent
        [] op = "checkTitleSimilarity" -> noTitle
        [] op = "checkURLAlreadyProcessed" -> urlRaises
        [] op = "checkDeduplication" ->
             IF urlRaises THEN TRUE
             ELSE IF signal.link # <<>> /\ checkURLAlreadyProcessed(t, signal.link)
               THEN FALSE
             ELSE IF checkAlreadyPublished(t, signal) THEN FALSE
             ELSE (signal.content # <<>> /\ noContent)
                    \/ (signal.title # <<>> /\ noTitle)
        [] op = "markAsProcessed" -> signal.content # <<>> /\ noContent
        [] op = "markAsPublished" -> (signal.content # <<>> /\ noContent)
                                       \/ (signal.title # <<>> /\ noTitle)

\* the instance after the call, whether it returned or raised: the writes
\* before the raising statement stay, and checkSourceFrequency and
\* markAsPublished give the instance a source_hashes map where it lacks one
effect(t, op, signal, time) ==
  LET noContent == "content_hashes" \in t.absent
      published == markAsPublished(t, signal, time)
      processed == markAsProcessed(t, signal, time)
      withSources == [t EXCEPT !.absent = @ \ {"source_hashes"}]
  IN  CASE op = "markAsPublished" ->
             IF signal.content # <<>> /\ noContent
               THEN [t EXCEPT !.published = published.published]
             ELSE IF raises(t, op, signal)
               THEN [t EXCEPT !.published = published.published,
                              !.content_hashes = published.content_hashes]
             ELSE IF signal.source # <<>>
               THEN [published EXCEPT !.absent = @ \ {"source_hashes"}]
             ELSE published
        [] op = "markAsProcessed" ->
             IF raises(t, op, signal)
               THEN [t EXCEPT !.published = processed.published]
             ELSE processed
        [] op = "checkDeduplication" ->
             IF /\ ~raises(t, op, signal)
                /\ ~(signal.link # <<>> /\ checkURLAlreadyProcessed(t, signal.link))
                /\ ~checkAlreadyPublished(t, signal)
                /\ signal.source # <<>>
               THEN withSources
             ELSE t
        [] OTHER -> t

\* the loop of filterSignalsForPublishing from its i-th signal on
RECURSIVE filterLoop(_, _, _, _, _, _)
filterLoop(t, signals, i, options, time, acc) ==
  IF i > Len(signals) THEN acc
  ELSE LET signal == signals[i]
           dedupResult == checkDeduplication(t, signal, options, time)
           next == IF dedupResult.isDuplicate
                   THEN [acc EXCEPT !.duplicates =
                           Append(@, [signal |-> signal,
                                      reasons |-> dedupResult.reasons])]
                   ELSE [acc EXCEPT !.approved = Append(@, signal)]
       IN  IF Len(next.approved) >= options.maxSignalsPerRun THEN next
           ELSE filterLoop(t, signals, i + 1, options, time, next)

\* mutant: the loop does not stop at the cap
filterSignalsUncapped(t, signals, options, time) ==
  filterLoop(t, signals, 1, [options EXCEPT !.maxSignalsPerRun = Len(signals) + 1],
             time, [approved |-> <<>>, duplicates |-> <<>>, skipped |-> <<>>])

filterSignalsForPublishing(t, signals, options, time) ==
  filterLoop(t, signals, 1, options, time,
             [approved |-> <<>>, duplicates |-> <<>>, skipped |-> <<>>])

----------------------------------------------------------------------------
(* CollectionTracker.  The `collected` object of a scope is a map from key  *)
(* to timestamp; a scope without `collected` is the empty map.  A signal    *)
(* carries link, title and source (the alternative fields url, judul and    *)
(* repo are absent).                                                        *)

SevenDays == 7 * OneDay
ThirtyDays == 30 * OneDay

\* new Date().toISOString().slice(0, 10)
dateOf(time) == time \div OneDay

\* index of the first occurrence of needle in s, 0 when there is none
indexOf(s, needle) ==
  LET hits == {i \in 1..(Len(s) - Len(needle) + 1) :
                 SubSeq(s, i, i + Len(needle) - 1) = needle}
  IN  IF hits = {} THEN 0 ELSE CHOOSE i \in hits : \A k \in hits : i <= k

\* new URL(url) for urls of the form scheme://host[/path][?query][#fragment];
\* any other string makes the constructor throw and is returned as it is
normalizeUrl(url) ==
  LET sep == indexOf(url, <<":", "/", "/">>)
      schemeOk == /\ sep > 1
                  /\ \A k \in 1..(sep - 1) : isUpper(url[k]) \/ isLowerAlnum(url[k])
      rest == splitFirst(splitFirst(SubSeq(url, sep + 3, Len(url)), "#"), "?")
      slash == indexOf(rest, <<"/">>)
      host == IF slash = 0 THEN rest ELSE SubSeq(rest, 1, slash - 1)
      pathname == IF slash = 0 THEN <<"/">> ELSE SubSeq(rest, slash, Len(rest))
      path == IF pathname[Len(pathname)] = "/" /\ Len(pathname) > 1
              THEN SubSeq(pathname, 1, Len(pathname) - 1) ELSE pathname
  IN  IF url = <<>> THEN <<>>
      ELSE IF ~schemeOk \/ host = <<>> THEN url
      ELSE toLowerCase(SubSeq(url, 1, sep)) \o <<"/", "/">> \o toLowerCase(host) \o path

normalizeTitle(title) == IF title = <<>> THEN <<>> ELSE normalizeText(title)

Item(source, link, title) == [source |-> source, link |-> link, title |-> title]

\* sample signals: a batch of three whose second item repeats the first
\* with a tracking parameter, the title of the first under another source
\* and link, the link of the first under another source and without title,
\* two signals without link sharing a title (one of them without source),
\* a signal whose title is the name of an inherited property
ItemOne ==
  Item(<<"A">>,
       <<"h", "t", "t", "p", ":", "/", "/", "x", ".", "c", "o", "m", "/", "1", "?", "u", "t", "m", "_", "s", "o", "u", "r", "c", "e", "=", "f", "o", "o">>,
       <<"F", "o", "o", " ", "L", "a", "u", "n", "c", "h">>)
ItemTwo ==
  Item(<<"A">>,
       <<"h", "t", "t", "p", ":", "/", "/", "x", ".", "c", "o", "m", "/", "1">>,
       <<"F", "o", "o", " ", "L", "a", "u", "n", "c", "h">>)
ItemThree ==
  Item(<<"B">>,
       <<"h", "t", "t", "p", ":", "/", "/", "y", ".", "c", "o", "m", "/", "2">>,
       <<"B", "a", "r", " ", "U", "p", "d", "a", "t", "e">>)
ItemTitleAgain ==
  Item(<<"B">>,
       <<"h", "t", "t", "p", ":", "/", "/", "y", ".", "c", "o", "m", "/", "9">>,
       <<"F", "O", "O", " ", " ", "l", "a", "u", "n", "c", "h", "!">>)
ItemLinkAgain ==
  Item(<<"C">>,
       <<"H", "T", "T", "P", ":", "/", "/", "X", ".", "c", "o", "m", "/", "1", "/", "#", "t", "o", "p">>,
       <<>>)
ItemNoLink ==
  Item(<<>>,
       <<>>,
       <<"Q", "u", "x">>)
ItemNoLinkAgain ==
  Item(<<"D">>,
       <<>>,
       <<"q", "u", "x", "!">>)

ItemInherited ==
  Item(<<"E">>,
       <<>>,
       <<"C", "o", "n", "s", "t", "r", "u", "c", "t", "o", "r">>)

\* a signal whose title normalizes to the empty string
ItemUntitled ==
  Item(<<"D">>,
       <<"h", "t", "t", "p", ":", "/", "/", "y", ".", "c", "o", "m", "/", "2">>,
       <<"!">>)

Items == {ItemOne, ItemTitleAgain, ItemLinkAgain, ItemNoLink, ItemNoLinkAgain, ItemInherited}

\* mutant: no title-only key (the full key stands in its place)
deriveKeysNoTitleKey(signal) ==
  LET source == IF signal.source = <<>> THEN Unknown ELSE signal.source
      normalizedUrl == normalizeUrl(signal.link)
      normalizedTitle == normalizeTitle(signal.title)
  IN  << toLowerCase(source \o <<":">> \o normalizedUrl \o <<":">> \o normalizedTitle),
         toLowerCase(source \o <<":">> \o normalizedUrl),
         toLowerCase(source \o <<":">> \o normalizedUrl \o <<":">> \o normalizedTitle),
         toLowerCase(source \o <<":">> \o normalizedTitle) >>

\* the four keys isAlreadyCollected and markAsCollected derive from a signal
deriveKeys(signal) ==
  LET source == IF signal.source = <<>> THEN Unknown ELSE signal.source
      normalizedUrl == normalizeUrl(signal.link)
      normalizedTitle == normalizeTitle(signal.title)
  IN  << toLowerCase(source \o <<":">> \o normalizedUrl \o <<":">> \o normalizedTitle),
         toLowerCase(source \o <<":">> \o normalizedUrl),
         toLowerCase(normalizedTitle),
         toLowerCase(source \o <<":">> \o normalizedTitle) >>

\* the keys of the sample signals, derived once
KeyTable == [item \in Items \cup {ItemTwo, ItemThree, ItemUntitled} |-> deriveKeys(item)]

collectionKeys(signal) == KeyTable[signal]

\* data/collection_tracker.json and data/<day>/collection_tracker.json; a
\* file that is absent holds nothing, and `globalBroken` and `daysBroken`
\* tell which of the files hold text that JSON.parse rejects
NoCollectionFiles ==
  [global |-> <<>>, days |-> <<>>, globalBroken |-> FALSE, daysBroken |-> {}]

collectionLoadTracker(files, time) ==
  [day |-> dateOf(time),
   global |-> IF files.globalBroken THEN <<>> ELSE files.global,
   today |-> IF dateOf(time) \in DOMAIN files.days \ files.daysBroken
             THEN files.days[dateOf(time)] ELSE <<>>]

collectionSaveTracker(c, files) ==
  [global |-> c.global, days |-> put(files.days, c.day, c.today),
   globalBroken |-> FALSE, daysBroken |-> files.daysBroken \ {c.day}]

\* the lowercase names every plain object inherits from Object.prototype:
\* collected[key] is truthy for them whether or not the key was stored, and
\* an assignment of a string to collected['__proto__'] stores nothing
Constructor == <<"c", "o", "n", "s", "t", "r", "u", "c", "t", "o", "r">>
Proto == <<"_", "_", "p", "r", "o", "t", "o", "_", "_">>
InheritedKeys == {Constructor, Proto}

\* today.collected exists once a signal was marked on that day; an inherited
\* value found in global.collected is no date, so that daysDiff is NaN
isAlreadyCollected(c, signal, time) ==
  LET keys == collectionKeys(signal)
  IN  \/ \E i \in 1..4 : \/ keys[i] \in DOMAIN c.today
                         \/ c.today # <<>> /\ keys[i] \in InheritedKeys
      \/ \E i \in 1..4 : /\ keys[i] \in DOMAIN c.global
                         /\ time - c.global[keys[i]] <= SevenDays

\* mutant: nothing is pruned
cleanupNothing(c, time) == c

cleanupOldEntries(c, time) ==
  LET kept == {key \in DOMAIN c.global : ~(c.global[key] < time - ThirtyDays)}
  IN  [c EXCEPT !.global = [key \in kept |-> c.global[key]]]

markAsCollected(c, signal, time) ==
  LET keys == collectionKeys(signal)
      keySet == {keys[i] : i \in 1..4} \ {Proto}
      stamped(map) ==
        [key \in DOMAIN map \cup keySet |-> IF key \in keySet THEN time ELSE map[key]]
  IN  cleanupOldEntries([c EXCEPT !.today = stamped(@), !.global = stamped(@)], time)

RECURSIVE collectionFilterLoop(_, _, _, _, _)
collectionFilterLoop(c, signals, i, time, acc) ==
  IF i > Len(signals) THEN [acc EXCEPT !.tracker = c]
  ELSE IF isAlreadyCollected(c, signals[i], time)
    THEN collectionFilterLoop(c, signals, i + 1, time,
           [acc EXCEPT !.skippedSignals = Append(@, signals[i])])
  ELSE collectionFilterLoop(markAsCollected(c, signals[i], time), signals, i + 1, time,
           [acc EXCEPT !.newSignals = Append(@, signals[i])])

\* mutant: every signal is checked against the tracker as it was before the
\* call
collectionFilterCheckFirst(c, signals, time) ==
  LET isNew(signal) == ~isAlreadyCollected(c, signal, time)
      isOld(signal) == isAlreadyCollected(c, signal, time)
      marked == collectionFilterLoop(c, signals, 1, time,
                  [tracker |-> c, newSignals |-> <<>>, skippedSignals |-> <<>>])
  IN  [tracker |-> marked.tracker,
       newSignals |-> SelectSeq(signals, isNew),
       skippedSignals |-> SelectSeq(signals, isOld)]

collectionFilterNewSignals(c, signals, time) ==
  collectionFilterLoop(c, signals, 1, time,
    [tracker |-> c, newSignals |-> <<>>, skippedSignals |-> <<>>])

-----------------------------------------------------------------------------
(* collectData (Phase 1)                                                    *)

\* the collectors in the order collectData queries them
Sources == <<"github", "telegram", "rss">>

\* what a collector does: it throws, or returns signals
Thrown == [throws |-> TRUE, signals |-> <<>>]
Returned(signals) == [throws |-> FALSE, signals |-> signals]

\* the keys under which mergeAndDedupe remembers a signal
mergeKeys(signal) ==
  LET url == signal.link
      source == IF signal.source = <<>> THEN Unknown ELSE signal.source
      lowered == trim(toLowerCase(signal.title))
  IN  { url, lowered, source \o <<":">> \o lowered, splitFirst(url, "?"),
        trim(SelectSeq(toLowerCase(signal.title), LAMBDA c : isWord(c) \/ isSpace(c))) }
        \ {<<>>}

\* the normalized form of a signal; a signal without time gets the time of
\* the run (channel, category and priority are the same for all samples)
normalized(signal, time) ==
  [source |-> IF signal.source = <<>> THEN Unknown ELSE signal.source,
   title |-> signal.title,
   link |-> signal.link,
   time |-> IF "time" \in DOMAIN signal THEN signal.time ELSE time]

RECURSIVE mergeLoop(_, _, _, _, _)
mergeLoop(signals, i, seen, combined, time) ==
  IF i > Len(signals) THEN combined
  ELSE IF mergeKeys(signals[i]) \cap seen # {}
    THEN mergeLoop(signals, i + 1, seen, combined, time)
  ELSE mergeLoop(signals, i + 1, seen \cup mergeKeys(signals[i]),
                 Append(combined, normalized(signals[i], time)), time)

RECURSIVE flatten(_)
flatten(lists) == IF lists = <<>> THEN <<>> ELSE Head(lists) \o flatten(Tail(lists))

\* mutant: every signal is kept
mergeAndDedupeKeepsAll(allSignals, time) ==
  [i \in 1..Len(flatten(allSignals)) |-> normalized(flatten(allSignals)[i], time)]

mergeAndDedupe(allSignals, time) == mergeLoop(flatten(allSignals), 1, {}, <<>>, time)

\* signals stamped within the last 24 hours before the run
filter24Hours(signals, time) ==
  SelectSeq(signals, LAMBDA signal : signal.time >= time - OneDay)

RECURSIVE sortSignals(_)
\* a stable sort, higher priority first and then newer first; the samples
\* have the same priority
sortSignals(signals) ==
  IF signals = <<>> THEN <<>>
  ELSE LET newest == CHOOSE i \in 1..Len(signals) :
                       /\ \A j \in 1..Len(signals) : signals[j].time <= signals[i].time
                       /\ \A j \in 1..(i - 1) : signals[j].time < signals[i].time
           others == [j \in 1..(Len(signals) - 1) |->
                        IF j < newest THEN signals[j] ELSE signals[j + 1]]
       IN  <<signals[newest]>> \o sortSignals(others)

\* the end of a try block whose collector returned: what filterNewSignals
\* let through is pushed to allNewSignals
pushNewSignals(acc, source, filtered) ==
  [acc EXCEPT !.tracker = filtered.tracker,
              !.allNewSignals = Append(@, filtered.newSignals),
              !.contributed[source] = filtered.newSignals]

\* one of the three try blocks: the collector is queried, and what it
\* returned goes through tracker.filterNewSignals
collectSource(acc, source, outcome, time) ==
  IF outcome.throws
    THEN [acc EXCEPT !.queried = Append(@, source),
                     !.allErrors = Append(@, [source |-> source])]
  ELSE pushNewSignals([acc EXCEPT !.queried = Append(@, source)], source,
         collectionFilterNewSignals(acc.tracker, outcome.signals, time))

\* the three try blocks one after the other, starting with a tracker loaded
\* from its files
collectLoop(files, outcomes, time) ==
  collectSource(
    collectSource(
      collectSource(
        [tracker |-> collectionLoadTracker(files, time), queried |-> <<>>,
         allErrors |-> <<>>, allNewSignals |-> <<>>,
         contributed |-> [source \in {"github", "telegram", "rss"} |-> <<>>]],
        Sources[1], outcomes[Sources[1]], time),
      Sources[2], outcomes[Sources[2]], time),
    Sources[3], outcomes[Sources[3]], time)

\* the rest of collectData: merge, 24-hour filter, merge with the batch of
\* the day, sort, write the batch, finalize the tracker
saveSignals(collected, files, daily, time) ==
  LET day == dateOf(time)
      existingSignals == IF day \in DOMAIN daily THEN daily[day] ELSE <<>>
      filteredNewSignals ==
        filter24Hours(mergeAndDedupe(collected.allNewSignals, time), time)
      sortedSignals ==
        sortSignals(mergeAndDedupe(<<existingSignals \o filteredNewSignals>>, time))
  IN  [tracker |-> collected.tracker,
       files |-> collectionSaveTracker(collected.tracker, files),
       daily |-> put(daily, day, sortedSignals),
       report |-> [queried |-> collected.queried, errors |-> collected.allErrors,
                   contributed |-> collected.contributed, saved |-> TRUE]]

\* mutant: the error of a collector ends the run, and nothing is written
collectDataAborting(files, daily, outcomes, time) ==
  CHOOSE run \in
    { IF collected.allErrors # <<>>
        THEN [tracker |-> collected.tracker, files |-> files, daily |-> daily,
              report |-> [queried |-> collected.queried,
                          errors |-> collected.allErrors,
                          contributed |-> collected.contributed, saved |-> FALSE]]
      ELSE saveSignals(collected, files, daily, time) :
        collected \in {collectLoop(files, outcomes, time)} } : TRUE

\* one run of collectData: the tracker instance at its end, the tracker
\* files and the daily batches it leaves, and what it reports
collectData(files, daily, outcomes, time) ==
  saveSignals(collectLoop(files, outcomes, time), files, daily, time)

\* no run of collectData yet
NoCollectRun ==
  [runs |-> 0,
   outcomes |-> [source \in {"github", "telegram", "rss"} |-> Returned(<<>>)],
   report |-> [queried |-> <<>>, errors |-> <<>>,
               contributed |-> [source \in {"github", "telegram", "rss"} |-> <<>>],
               saved |-> FALSE]]

----------------------------------------------------------------------------
(* AnalysisTracker *)

freshAnalysisTracker(time) == [analyzed |-> <<>>, lastUpdated |-> time]

analysisSignalKey(signal) ==
  LET source == toLowerCase(signal.source)
      link == toLowerCase(signal.link)
      title == SelectSeq(toLowerCase(signal.title), isLowerAlnum)
  IN  source \o <<":">> \o link \o <<":">> \o title

\* data/analysis_tracker.json: absent, or holding text that JSON.parse
\* accepts or rejects
NoAnalysisFile == [exists |-> FALSE, parseable |-> TRUE, data |-> freshAnalysisTracker(0)]

\* mutant: entries older than seven days are not loaded
analysisLoadRecent(f, time) ==
  IF f.exists /\ f.parseable
  THEN [f.data EXCEPT !.analyzed =
          [key \in {k \in DOMAIN f.data.analyzed :
                       time - f.data.analyzed[k].timestamp <= 7 * OneDay}
             |-> f.data.analyzed[key]]]
  ELSE freshAnalysisTracker(time)

analysisLoadTracker(f, time) ==
  IF f.exists /\ f.parseable THEN f.data ELSE freshAnalysisTracker(time)

analysisSaveTracker(a, time) ==
  [exists |-> TRUE, parseable |-> TRUE, data |-> [a EXCEPT !.lastUpdated = time]]

isAlreadyAnalyzed(a, signal) == analysisSignalKey(signal) \in DOMAIN a.analyzed

\* markAsAnalyzed(signal) with the default analysisResult = null
markAsAnalyzed(a, signal, time) ==
  [a EXCEPT !.analyzed =
     put(@, analysisSignalKey(signal), [timestamp |-> time, analysisResult |-> "null"])]

RECURSIVE analysisFilterLoop(_, _, _, _, _)
analysisFilterLoop(a, signals, i, time, acc) ==
  IF i > Len(signals) THEN [acc EXCEPT !.tracker = a]
  ELSE IF isAlreadyAnalyzed(a, signals[i])
    THEN analysisFilterLoop(a, signals, i + 1, time,
           [acc EXCEPT !.skippedSignals = Append(@, signals[i])])
  ELSE analysisFilterLoop(markAsAnalyzed(a, signals[i], time), signals, i + 1, time,
           [acc EXCEPT !.newSignals = Append(@, signals[i])])

\* AnalysisTracker.filterNewSignals; `tracker` is the instance afterwards
analysisFilterNewSignals(a, signals, time) ==
  analysisFilterLoop(a, signals, 1, time,
    [tracker |-> a, newSignals |-> <<>>, skippedSignals |-> <<>>])

----------------------------------------------------------------------------
(* Tracker-level behaviours: any sequence of calls on one instance.         *)

Sig(source, link, title, content) ==
  [source |-> source, link |-> link, title |-> title, content |-> content]

\* sample signals: one identity in two spellings, the same link under
\* another source and title, an empty link, a link that cleans to the empty
\* string
SigLinked == Sig(<<"A">>, <<"x", "/", "1">>, <<"F", "o">>, <<"h", "i">>)
SigRespelt == Sig(<<"a">>, <<"X", "/", "1">>, <<"f", "o", "!">>, <<"H", "i", "!">>)
SigSameLink ==
  Sig(<<"B">>, <<"x", "/", "1", "?", "u">>, <<"B", "a">>, <<"y", "o", "l", "o">>)
SigNoLink == Sig(<<"A">>, <<>>, <<"F", "o">>, <<>>)
SigQueryOnly == Sig(<<>>, <<"?", "u">>, <<>>, <<>>)

Signals == {SigLinked, SigRespelt, SigSameLink, SigNoLink, SigQueryOnly}

\* sample inputs of filterSignalsForPublishing
FilterInputs ==
  { <<SigLinked, SigSameLink>>,
    <<SigNoLink, SigQueryOnly, SigLinked>>,
    <<SigQueryOnly, SigRespelt, SigNoLink>> }

Urls == {s.link : s \in Signals} \cup {<<"x", "/">>, <<"#">>}

\* the options publishEarlyDetection passes to the filter and to the guards
dedupOptions ==
  [DefaultOptions EXCEPT !.contentSimilarityThreshold = 60,
                         !.titleSimilarityThreshold = 70,
                         !.maxSourcePerHour = 1,
                         !.maxSignalsPerRun = 20]

\* options of the tracker-level calls: the defaults, and the publisher's
\* with a cap of one signal per run
OptionSets == {DefaultOptions, [dedupOptions EXCEPT !.maxSignalsPerRun = 1]}

TickSteps == {OneHour, OneDay}

\* two processes running publishEarlyDetection (two scheduled jobs, or a
\* scheduled and a manual one)
Processes == {1, 2}

\* a process that has not started: its deduplication instance does not exist
NoProcess ==
  [pc |-> "idle", tracker |-> freshTracker(0), loaded |-> {}, queue |-> <<>>,
   idx |-> 0, attempts |-> <<>>, marks |-> {}]

\* no call of sendToTelegramBot is under way
NoSend ==
  [pc |-> "idle", variant |-> "publisher", maxRetries |-> 0, attempt |-> 0,
   useParseMode |-> TRUE, replies |-> <<>>, result |-> [success |-> FALSE]]

\* no pipeline entry point is running
NoPipeline ==
  [pc |-> "idle", entry |-> "none", trace |-> <<>>, signals |-> 0, analyses |-> 0,
   published |-> 0, result |-> "none"]

InitRun ==
  /\ file = NoFile
  /\ pc = "idle"
  /\ runs = 0
  /\ originalSignals = <<>>
  /\ analyses = <<>>
  /\ approved = <<>>
  /\ queue = <<>>
  /\ idx = 0
  /\ publishResults = [total |-> 0, sent |-> 0, failed |-> 0, failedMessages |-> <<>>]
  /\ guardSeen = FALSE
  /\ attempts = <<>>
  /\ pubMarks = {}
  /\ procMarks = {}
  /\ collectionFiles = NoCollectionFiles
  /\ collection = collectionLoadTracker(NoCollectionFiles, 0)
  /\ analysisTracker = freshAnalysisTracker(0)
  /\ analysisFile = NoAnalysisFile
  /\ passed = [batch |-> <<>>, signals |-> <<>>]
  /\ analysisRuns = 0
  /\ dailySignals = <<>>
  /\ collectRun = NoCollectRun
  /\ procs = [p \in Processes |-> NoProcess]
  /\ send = NoSend
  /\ pipeline = NoPipeline

InitTracker ==
  /\ tracker = loadTracker(NoFile, 0)
  /\ now = 0
  /\ ticks = 0
  /\ ret = [op |-> "new", arg |-> <<>>, value |-> FALSE]
  /\ calls = 0
  /\ everPublished = {}
  /\ InitRun

\* an instance was not used yet; the trackers share nothing and a
\* tracker-level behaviour exercises one of them
CollectionUnused ==
  /\ collection = collectionLoadTracker(NoCollectionFiles, 0)
  /\ collectionFiles = NoCollectionFiles

AnalysisUnused == analysisTracker = freshAnalysisTracker(0)

DedupUnused == tracker.published = <<>>

\* the clock advances between runs and while a send is awaited
Tick ==
  /\ pc \in {"idle", "send"}
  /\ ticks < MaxTicks
  /\ \E d \in TickSteps : now' = now + d
  /\ ticks' = ticks + 1
  /\ UNCHANGED <<tracker, apiVars, runVars, ingestVars>>

Call(op, arg, value, t) ==
  /\ CollectionUnused /\ AnalysisUnused
  /\ calls < MaxCalls
  /\ calls' = calls + 1
  /\ ret' = [op |-> op, arg |-> arg, value |-> value]
  /\ tracker' = t
  /\ UNCHANGED <<now, ticks, runVars, ingestVars>>

MarkAsPublished ==
  \E s \in Signals :
    /\ Call("markAsPublished", s, TRUE, markAsPublished(tracker, s, now))
    /\ everPublished' = everPublished \cup {s}

MarkAsProcessed ==
  \E s \in Signals :
    /\ Call("markAsProcessed", s, TRUE, markAsProcessed(tracker, s, now))
    /\ UNCHANGED everPublished

CheckAlreadyPublished ==
  \E s \in Signals :
    /\ Call("checkAlreadyPublished", s, checkAlreadyPublished(tracker, s), tracker)
    /\ UNCHANGED everPublished

CheckURLAlreadyProcessed ==
  \E url \in Urls :
    /\ Call("checkURLAlreadyProcessed", url,
            checkURLAlreadyProcessed(tracker, url), tracker)
    /\ UNCHANGED everPublished

CheckDeduplication ==
  \E s \in Signals, o \in OptionSets :
    /\ Call("checkDeduplication", [signal |-> s, options |-> o],
            checkDeduplication(tracker, s, o, now), tracker)
    /\ UNCHANGED everPublished

FilterSignalsForPublishing ==
  \E list \in FilterInputs, o \in OptionSets :
    /\ Call("filterSignalsForPublishing", [signals |-> list, options |-> o],
            filterSignalsForPublishing(tracker, list, o, now), tracker)
    /\ UNCHANGED everPublished

\* a stored content, one whose hash differs from it in one of five
\* characters, and an unrelated one
Contents == {SigSameLink.content, <<"y", "o", "l", "p">>, SigLinked.content}

CheckContentSimilarity ==
  \E content \in Contents,
     threshold \in {DefaultContentThreshold, DefaultContentThreshold + 1} :
    /\ Call("checkContentSimilarity", <<content, threshold>>,
            checkContentSimilarity(tracker, content, threshold), tracker)
    /\ UNCHANGED everPublished

CheckSourceFrequency ==
  \E s \in Signals :
    /\ Call("checkSourceFrequency", <<s.source, 1>>,
            checkSourceFrequency(tracker, s.source, 1, now), tracker)
    /\ UNCHANGED everPublished

NextTracker ==
  \/ Tick
  \/ MarkAsPublished
  \/ MarkAsProcessed
  \/ CheckAlreadyPublished
  \/ CheckURLAlreadyProcessed
  \/ CheckDeduplication
  \/ FilterSignalsForPublishing
  \/ CheckContentSimilarity
  \/ CheckSourceFrequency

SpecTracker == InitTracker /\ [][NextTracker]_vars

----------------------------------------------------------------------------
(* Marking trackers: arbitrary calls on one CollectionTracker instance      *)
(* (re-created from its files by the run of a later day), on one            *)
(* AnalysisTracker, or mark calls on the AdvancedDeduplication instance.    *)

Batches ==
  {<<item>> : item \in Items}
    \cup {<<ItemOne, ItemTwo, ItemThree>>, <<ItemLinkAgain, ItemUntitled>>}

\* clock advances: to the edge of the 7-day window, between the windows, to
\* the edge of the 30-day retention and past it
DaySteps == {SevenDays, 2 * SevenDays, ThirtyDays, ThirtyDays + OneDay}

InitIngest == InitTracker

\* the clock advances between calls (an advance before the first call only
\* moves the origin)
TickDays ==
  /\ calls > 0
  /\ ticks < MaxDayTicks
  /\ \E d \in DaySteps : now' = now + d
  /\ ticks' = ticks + 1
  /\ UNCHANGED <<tracker, apiVars, runVars, ingestVars>>

IngestCall(op, arg, value) ==
  /\ DedupUnused
  /\ calls < MaxIngestCalls
  /\ calls' = calls + 1
  /\ ret' = [op |-> op, arg |-> arg, value |-> value]
  /\ UNCHANGED <<tracker, now, ticks, everPublished, runVars, collectionFiles,
                 phase2Vars, phase1Vars, procs, send, pipeline>>

\* new CollectionTracker(), by the run of a later day
NewCollectionTracker ==
  /\ AnalysisUnused /\ DedupUnused
  /\ collection.day # dateOf(now)
  /\ collection' = collectionLoadTracker(collectionFiles, now)
  /\ UNCHANGED <<trackerVars, apiVars, runVars, collectionFiles, analysisTracker,
                 phase2Vars, phase1Vars, procs, send, pipeline>>

\* CollectionTracker.finalize()
CollectionFinalize ==
  /\ AnalysisUnused /\ DedupUnused
  /\ collectionFiles' = collectionSaveTracker(collection, collectionFiles)
  /\ UNCHANGED <<trackerVars, apiVars, runVars, collection, analysisTracker,
                 phase2Vars, phase1Vars, procs, send, pipeline>>

IsAlreadyCollected ==
  \E item \in Items :
    /\ AnalysisUnused
    /\ IngestCall("isAlreadyCollected", item, isAlreadyCollected(collection, item, now))
    /\ UNCHANGED <<collection, analysisTracker>>

MarkAsCollected ==
  \E item \in Items :
    /\ AnalysisUnused
    /\ IngestCall("markAsCollected", item, TRUE)
    /\ collection' = markAsCollected(collection, item, now)
    /\ UNCHANGED analysisTracker

CollectionFilterNewSignals ==
  \E batch \in Batches :
    LET result == collectionFilterNewSignals(collection, batch, now)
    IN  /\ AnalysisUnused
        /\ IngestCall("CollectionTracker.filterNewSignals", batch,
                      [newSignals |-> result.newSignals,
                       skippedSignals |-> result.skippedSignals])
        /\ collection' = result.tracker
        /\ UNCHANGED analysisTracker

IsAlreadyAnalyzed ==
  \E item \in Items :
    /\ CollectionUnused
    /\ IngestCall("isAlreadyAnalyzed", item, isAlreadyAnalyzed(analysisTracker, item))
    /\ UNCHANGED <<collection, analysisTracker>>

MarkAsAnalyzed ==
  \E item \in Items :
    /\ CollectionUnused
    /\ IngestCall("markAsAnalyzed", item, TRUE)
    /\ analysisTracker' = markAsAnalyzed(analysisTracker, item, now)
    /\ UNCHANGED collection

AnalysisFilterNewSignals ==
  \E batch \in Batches :
    LET result == analysisFilterNewSignals(analysisTracker, batch, now)
    IN  /\ CollectionUnused
        /\ IngestCall("AnalysisTracker.filterNewSignals", batch,
                      [newSignals |-> result.newSignals,
                       skippedSignals |-> result.skippedSignals])
        /\ analysisTracker' = result.tracker
        /\ UNCHANGED collection

NextIngest ==
  \/ TickDays
  \/ NewCollectionTracker
  \/ CollectionFinalize
  \/ IsAlreadyCollected
  \/ MarkAsCollected
  \/ CollectionFilterNewSignals
  \/ IsAlreadyAnalyzed
  \/ MarkAsAnalyzed
  \/ AnalysisFilterNewSignals
  \/ MarkAsPublished
  \/ MarkAsProcessed

SpecIngest == InitIngest /\ [][NextIngest]_vars

-----------------------------------------------------------------------------
(* analyzeAllSignals (Phase 2): sequential runs, each constructing its      *)
(* trackers from the files the runs before it left.                         *)

\* the options Phase 2 passes to filterSignalsForPublishing
analysisDedupOptions ==
  [DefaultOptions EXCEPT !.contentSimilarityThreshold = 80,
                         !.titleSimilarityThreshold = 90,
                         !.maxSourcePerHour = 5,
                         !.maxSignalsPerRun = 100]

\* one element of enrichedSignals (the samples carry neither judul nor repo)
enrich(signal) ==
  Sig(IF signal.source # <<>> THEN signal.source ELSE Unknown,
      signal.link, signal.title, signal.title)

\* the daily batches of Phase 1
Phase2Batches ==
  { <<ItemOne>>, <<ItemOne, ItemThree>>, <<ItemThree, ItemTwo>>,
    <<ItemNoLink, ItemTitleAgain>> }

\* what the scoring collaborator does: it is not called for want of
\* GEMINI_API_KEY1, returns results, returns null, or throws
GeminiOutcomes == {"no key", "results", "null", "throws"}

RECURSIVE markEach(_, _, _, _)
\* uniqueSignals.forEach(signal => tracker.markAsAnalyzed(signal))
markEach(a, signals, i, time) ==
  IF i > Len(signals) THEN a
  ELSE markEach(markAsAnalyzed(a, signals[i], time), signals, i + 1, time)

\* one run of analyzeAllSignals over a batch: what it passes to the scorer
\* and the tracker it flushes
analyzeAllSignals(aFile, dFile, batch, outcome, time) ==
  LET loaded == analysisLoadTracker(aFile, time)
      filtered == analysisFilterNewSignals(loaded, batch, time)
      newSignals == filtered.newSignals
      enrichedSignals == [i \in 1..Len(newSignals) |-> enrich(newSignals[i])]
      uniqueSignals ==
        filterSignalsForPublishing(loadTracker(dFile, time), enrichedSignals,
                                   analysisDedupOptions, time).approved
      called == newSignals # <<>> /\ uniqueSignals # <<>> /\ outcome # "no key"
      final == IF called /\ outcome = "results"
               THEN markEach(filtered.tracker, uniqueSignals, 1, time)
               ELSE filtered.tracker
  IN  [passed |-> IF called THEN uniqueSignals ELSE <<>>,
       file |-> analysisSaveTracker(final, time)]

InitPhase2 == InitTracker

AnalyzeAllSignals ==
  \E batch \in Phase2Batches, outcome \in GeminiOutcomes :
    LET run == analyzeAllSignals(analysisFile, file, batch, outcome, now)
    IN  /\ analysisRuns < MaxPhase2Runs
        /\ analysisRuns' = analysisRuns + 1
        /\ passed' = [batch |-> batch, signals |-> run.passed]
        /\ analysisFile' = run.file
        /\ UNCHANGED <<trackerVars, apiVars, runVars, collection, collectionFiles,
                       analysisTracker, phase1Vars, procs, send, pipeline>>

\* no daily_signals.json for today: process.exit(1) before the tracker is used
AnalyzeNoBatch ==
  /\ analysisRuns < MaxPhase2Runs
  /\ analysisRuns' = analysisRuns + 1
  /\ passed' = [batch |-> <<>>, signals |-> <<>>]
  /\ UNCHANGED <<trackerVars, apiVars, runVars, collection, collectionFiles,
                 analysisTracker, analysisFile, phase1Vars, procs, send, pipeline>>

\* time passes between runs
DaysPass ==
  /\ ticks < MaxDayTicks
  /\ \E d \in {OneHour, ThirtyDays + OneDay} : now' = now + d
  /\ ticks' = ticks + 1
  /\ UNCHANGED <<tracker, apiVars, runVars, ingestVars>>

\* between two Phase 2 runs a Phase 3 run publishes a signal and flushes the
\* deduplication tracker
PublishedByPhase3 ==
  \E item \in {ItemOne, ItemThree} :
    /\ ~file.exists
    /\ file' = saveTracker(markAsPublished(loadTracker(file, now), enrich(item), now), now)
    /\ UNCHANGED <<trackerVars, apiVars, pc, runs, originalSignals, analyses,
                   approved, queue, idx, publishResults, guardSeen, attempts,
                   pubMarks, procMarks, ingestVars>>

NextPhase2 ==
  \/ AnalyzeAllSignals
  \/ AnalyzeNoBatch
  \/ DaysPass
  \/ PublishedByPhase3

SpecPhase2 == InitPhase2 /\ [][NextPhase2]_vars

-----------------------------------------------------------------------------
(* collectData (Phase 1): sequential runs over what the collectors return   *)

\* what the three collectors do in one run
SourceOutcomes ==
  { [github |-> g, telegram |-> t, rss |-> r] :
      g \in {Thrown, Returned(<<ItemOne, ItemTwo>>)},
      t \in {Thrown, Returned(<<>>), Returned(<<ItemThree>>)},
      r \in {Thrown, Returned(<<ItemNoLink>>), Returned(<<ItemUntitled>>)} }

InitCollect == InitTracker

CollectData ==
  \E outcomes \in SourceOutcomes :
    \E run \in {collectData(collectionFiles, dailySignals, outcomes, now)} :
        /\ collectRun.runs < MaxCollectRuns
        /\ collectRun' = [runs |-> collectRun.runs + 1, outcomes |-> outcomes,
                          report |-> run.report]
        /\ collection' = run.tracker
        /\ collectionFiles' = run.files
        /\ dailySignals' = run.daily
        /\ UNCHANGED <<trackerVars, apiVars, runVars, analysisTracker, phase2Vars,
                       procs, send, pipeline>>

NextCollect ==
  \/ CollectData
  \/ DaysPass

SpecCollect == InitCollect /\ [][NextCollect]_vars

-----------------------------------------------------------------------------
(* Construction of the three trackers from files that earlier runs wrote    *)
(* and that were since removed, damaged or rewritten by the reset script.   *)

\* a signal with a source and nothing else
SigBare == Sig(<<"A">>, <<>>, <<>>, <<>>)

LoadSignals == {SigLinked, SigBare}
LoadItems == {ItemOne, ItemInherited}
TrackerKinds == {"deduplication", "collection", "analysis"}

InitLoad == InitTracker

\* a behaviour marks signals in one of the three trackers

LoadCall(op, arg, value) ==
  /\ calls < MaxCalls
  /\ calls' = calls + 1
  /\ ret' = [op |-> op, arg |-> arg, value |-> value]
  /\ UNCHANGED <<now, ticks, everPublished, runVars, collectionFiles, phase2Vars, phase1Vars, procs, send, pipeline>>

\* a call of one of the six operations on the AdvancedDeduplication instance
DedupCall ==
  \E op \in DedupOps, signal \in LoadSignals :
    /\ CollectionUnused /\ AnalysisUnused
    /\ LoadCall(op, signal, [threw |-> raises(tracker, op, signal)])
    /\ tracker' = effect(tracker, op, signal, now)
    /\ UNCHANGED <<collection, analysisTracker>>

LoadMarkAsCollected ==
  \E item \in LoadItems :
    /\ DedupUnused /\ AnalysisUnused
    /\ LoadCall("markAsCollected", item, [threw |-> FALSE])
    /\ collection' = markAsCollected(collection, item, now)
    /\ UNCHANGED <<tracker, analysisTracker>>

LoadIsAlreadyCollected ==
  \E item \in LoadItems :
    /\ DedupUnused /\ AnalysisUnused
    /\ LoadCall("isAlreadyCollected", item,
                [threw |-> FALSE, result |-> isAlreadyCollected(collection, item, now)])
    /\ UNCHANGED <<tracker, collection, analysisTracker>>

LoadMarkAsAnalyzed ==
  \E item \in LoadItems :
    /\ DedupUnused /\ CollectionUnused
    /\ LoadCall("markAsAnalyzed", item, [threw |-> FALSE])
    /\ analysisTracker' = markAsAnalyzed(analysisTracker, item, now)
    /\ UNCHANGED <<tracker, collection>>

LoadIsAlreadyAnalyzed ==
  \E item \in LoadItems :
    /\ DedupUnused /\ CollectionUnused
    /\ LoadCall("isAlreadyAnalyzed", item,
                [threw |-> FALSE, result |-> isAlreadyAnalyzed(analysisTracker, item)])
    /\ UNCHANGED <<tracker, collection, analysisTracker>>

\* a link that carries a parameter other than the tracking parameters
LinkWithId ==
  <<"h", "t", "t", "p", ":", "/", "/", "x", ".", "c", "o", "m", "/", "1", "?", "i", "d", "=", "5">>

\* links handed to normalizeUrl: those of the sample signals, a link with
\* another parameter, a host in capitals without a path, a string that is
\* no URL
NormalizeInputs ==
  {item.link : item \in Items}
    \cup {LinkWithId, <<"H", "T", "T", "P", ":", "/", "/", "X", ".", "C", "O", "M">>,
          <<"n", "o", " ", "u", "r", "l">>}

NormalizeUrl ==
  \E url \in NormalizeInputs :
    /\ DedupUnused /\ AnalysisUnused
    /\ LoadCall("normalizeUrl", url, normalizeUrl(url))
    /\ UNCHANGED <<tracker, collection, analysisTracker>>

\* finalize() of a tracker writes its file or files
Finalize ==
  \E kind \in TrackerKinds :
    /\ file' = IF kind = "deduplication" THEN saveTracker(tracker, now) ELSE file
    /\ collectionFiles' = IF kind = "collection"
                           THEN collectionSaveTracker(collection, collectionFiles)
                           ELSE collectionFiles
    /\ analysisFile' = IF kind = "analysis"
                        THEN analysisSaveTracker(analysisTracker, now)
                        ELSE analysisFile
    /\ UNCHANGED <<trackerVars, apiVars, pc, runs, originalSignals, analyses,
                   approved, queue, idx, publishResults, guardSeen, attempts,
                   pubMarks, procMarks, collection, analysisTracker, passed,
                   analysisRuns, phase1Vars, procs, send, pipeline>>

\* the constructor of a tracker: this.tracker = this.loadTracker()
Construct ==
  \E kind \in TrackerKinds :
    /\ calls < MaxCalls
    /\ calls' = calls + 1
    /\ ret' = [op |-> "new", arg |-> kind, value |-> [threw |-> FALSE]]
    /\ tracker' = IF kind = "deduplication" THEN loadTracker(file, now) ELSE tracker
    /\ collection' = IF kind = "collection"
                      THEN collectionLoadTracker(collectionFiles, now)
                      ELSE collection
    /\ analysisTracker' = IF kind = "analysis"
                           THEN analysisLoadTracker(analysisFile, now)
                           ELSE analysisTracker
    /\ UNCHANGED <<now, ticks, everPublished, runVars, collectionFiles, phase2Vars, phase1Vars, procs, send, pipeline>>

\* the data directory is removed
RemoveFiles ==
  /\ file' = NoFile
  /\ collectionFiles' = NoCollectionFiles
  /\ analysisFile' = NoAnalysisFile
  /\ UNCHANGED <<trackerVars, apiVars, pc, runs, originalSignals, analyses,
                 approved, queue, idx, publishResults, guardSeen, attempts,
                 pubMarks, procMarks, collection, analysisTracker, passed,
                 analysisRuns, phase1Vars, procs, send, pipeline>>

\* the files that exist are damaged (writes cut short): their text is no
\* JSON any more
DamageFiles ==
  /\ file' = [file EXCEPT !.parseable = ~file.exists]
  /\ collectionFiles' =
       [collectionFiles EXCEPT !.globalBroken = collectionFiles.days # <<>>,
                               !.daysBroken = DOMAIN collectionFiles.days]
  /\ analysisFile' = [analysisFile EXCEPT !.parseable = ~analysisFile.exists]
  /\ UNCHANGED <<trackerVars, apiVars, pc, runs, originalSignals, analyses,
                 approved, queue, idx, publishResults, guardSeen, attempts,
                 pubMarks, procMarks, collection, analysisTracker, passed,
                 analysisRuns, phase1Vars, procs, send, pipeline>>

\* the reset script rewrites the three global tracker files
ResetTrackers ==
  /\ file' = [exists |-> TRUE, parseable |-> TRUE, data |-> resetTracker(now)]
  /\ collectionFiles' = [collectionFiles EXCEPT !.global = <<>>,
                                                !.globalBroken = FALSE]
  /\ analysisFile' = analysisSaveTracker(freshAnalysisTracker(now), now)
  /\ UNCHANGED <<trackerVars, apiVars, pc, runs, originalSignals, analyses,
                 approved, queue, idx, publishResults, guardSeen, attempts,
                 pubMarks, procMarks, collection, analysisTracker, passed,
                 analysisRuns, phase1Vars, procs, send, pipeline>>

NextLoad ==
  \/ DedupCall
  \/ LoadMarkAsCollected
  \/ LoadIsAlreadyCollected
  \/ LoadMarkAsAnalyzed
  \/ LoadIsAlreadyAnalyzed
  \/ NormalizeUrl
  \/ Finalize
  \/ Construct
  \/ RemoveFiles
  \/ DamageFiles
  \/ ResetTrackers

SpecLoad == InitLoad /\ [][NextLoad]_vars

----------------------------------------------------------------------------
(* publishEarlyDetection (Phase 3)                                          *)

Analysis(project_name, opportunity_type, investment_angle, evidence, score) ==
  [project_name |-> project_name, opportunity_type |-> opportunity_type,
   investment_angle |-> investment_angle, reasoning |-> <<>>,
   evidence |-> evidence, score |-> score]

\* daily_signals.json: the signals the analyses were made from
DailySignals == <<[source |-> <<"A">>, link |-> <<"x", "/", "1">>]>>

\* sample analyses: a watch one and a hot one of the same project without
\* evidence, one of score 50 (in the early and the watch list) made from a
\* known signal, a risk one made from the same signal
AnalysisPool ==
  { Analysis(<<"F", "o">>, <<"L">>, <<>>, <<>>, 40),
    Analysis(<<"F", "o">>, <<"I">>, <<>>, <<>>, 80),
    Analysis(<<"B", "a">>, <<>>, <<"h", "i">>, <<<<"x", "/", "1">>>>, 50),
    Analysis(<<"B", "a">>, <<>>, <<"y", "o">>, <<<<"x", "/", "1">>>>, 20) }

AnalysisLists ==
  UNION {[1..n -> AnalysisPool] : n \in 0..MaxAnalyses}

\* Math.round(analysis.score / 10)
scoreOutOf10(analysis) == (analysis.score + 5) \div 10

isHot(analysis) == scoreOutOf10(analysis) >= 8
isEarly(analysis) == scoreOutOf10(analysis) >= 5 /\ scoreOutOf10(analysis) < 8
isWatch(analysis) == scoreOutOf10(analysis) >= 4 /\ scoreOutOf10(analysis) < 6
isRisk(analysis) == scoreOutOf10(analysis) < 4

\* analysis.evidence?.[0] || ''
evidence0(analysis) ==
  IF Len(analysis.evidence) >= 1 THEN analysis.evidence[1] ELSE <<>>

\* originalSignal?.source || 'Unknown', the original signal found by link
originalSource(signals, analysis) ==
  LET hits == {i \in 1..Len(signals) : signals[i].link = evidence0(analysis)}
      first == CHOOSE i \in hits : \A j \in hits : i <= j
  IN  IF evidence0(analysis) = <<>> \/ hits = {} \/ signals[first].source = <<>>
      THEN Unknown ELSE signals[first].source

orDefault(s, default) == IF s = <<>> THEN default ELSE s

enrichForDedup(signals, analysis) ==
  LET link == evidence0(analysis)
      projectName == orDefault(analysis.project_name, Unknown)
      opportunityType == orDefault(analysis.opportunity_type, Unknown)
  IN  [project_name |-> analysis.project_name,
       opportunity_type |-> analysis.opportunity_type,
       investment_angle |-> analysis.investment_angle,
       reasoning |-> analysis.reasoning,
       evidence |-> analysis.evidence,
       score |-> analysis.score,
       source |-> originalSource(signals, analysis),
       title |-> projectName \o <<" ", "-", " ">> \o opportunityType,
       link |-> link,
       content |-> trim(analysis.investment_angle \o <<" ">> \o analysis.reasoning),
       url_key |-> splitFirst(splitFirst(link, "?"), "#")]

\* the signal the category loops track an analysis under
signalForTracking(signals, analysis) ==
  [source |-> originalSource(signals, analysis),
   title |-> analysis.project_name,
   link |-> evidence0(analysis),
   content |-> analysis.investment_angle]

\* the URL pre-filter loop, from the i-th analysis on
RECURSIVE urlFilterLoop(_, _, _, _, _)
urlFilterLoop(t, list, i, urlSeen, kept) ==
  IF i > Len(list) THEN kept
  ELSE LET analysis == list[i]
       IN  IF analysis.url_key # <<>> /\ checkURLAlreadyProcessed(t, analysis.url_key)
             THEN urlFilterLoop(t, list, i + 1, urlSeen, kept)
           ELSE IF analysis.url_key # <<>> /\ analysis.url_key \in urlSeen
             THEN urlFilterLoop(t, list, i + 1, urlSeen, kept)
           ELSE urlFilterLoop(t, list, i + 1,
                              IF analysis.url_key # <<>>
                              THEN urlSeen \cup {analysis.url_key} ELSE urlSeen,
                              Append(kept, analysis))

\* dedupResult.approved: categorise, enrich, pre-filter by URL, deduplicate
approvedAnalyses(t, signals, list, time) ==
  LET allAnalyses == SelectSeq(list, isHot) \o SelectSeq(list, isEarly)
                     \o SelectSeq(list, isWatch) \o SelectSeq(list, isRisk)
      allAnalysesForDedup ==
        [i \in 1..Len(allAnalyses) |-> enrichForDedup(signals, allAnalyses[i])]
      urlFilteredAnalyses == urlFilterLoop(t, allAnalysesForDedup, 1, {}, <<>>)
  IN  filterSignalsForPublishing(t, urlFilteredAnalyses, dedupOptions, time).approved

tag(category, list) ==
  [i \in 1..Len(list) |-> [category |-> category, analysis |-> list[i]]]

firstN(list, n) == SubSeq(list, 1, IF Len(list) < n THEN Len(list) ELSE n)

\* the hot, early, watch and risk loops in the order they run
publishQueue(list) ==
  tag("hot", SelectSeq(list, isHot)) \o tag("early", SelectSeq(list, isEarly))
  \o tag("watch", SelectSeq(list, isWatch))
  \o tag("risk", firstN(SelectSeq(list, isRisk), 10))

marksProcessedFirst(category) == category \in {"hot", "early"}

statusOf(t, key) ==
  IF key \notin DOMAIN t.published THEN "unknown"
  ELSE IF t.published[key].status = "processed" THEN "processed"
  ELSE "published"

NoResults ==
  [total |-> 0, sent |-> 0, failed |-> 0, failedMessages |-> <<>>]

Init ==
  /\ tracker = freshTracker(0)
  /\ now = 0
  /\ ticks = 0
  /\ ret = [op |-> "new", arg |-> <<>>, value |-> FALSE]
  /\ calls = 0
  /\ everPublished = {}
  /\ InitRun

\* a run that finds no analyses returns before anything is sent or saved
StartRunEmpty ==
  /\ pc = "idle"
  /\ runs < MaxRuns
  /\ runs' = runs + 1
  /\ tracker' = loadTracker(file, now)
  /\ originalSignals' = DailySignals
  /\ analyses' = <<>>
  /\ approved' = <<>>
  /\ queue' = <<>>
  /\ idx' = 0
  /\ publishResults' = NoResults
  /\ guardSeen' = FALSE
  /\ attempts' = <<>>
  /\ pubMarks' = {}
  /\ procMarks' = {}
  /\ pc' = "done"
  /\ UNCHANGED ingestVars
  /\ UNCHANGED <<now, ticks, apiVars, file>>

\* mutant: the tracker is flushed before the credentials are looked at
StartRunNoCredentialsFlushes ==
  /\ pc = "idle"
  /\ runs < MaxRuns
  /\ runs' = runs + 1
  /\ tracker' = loadTracker(file, now)
  /\ file' = saveTracker(tracker', now)
  /\ pc' = "aborted"
  /\ UNCHANGED ingestVars
  /\ UNCHANGED <<now, ticks, apiVars, originalSignals, analyses, approved,
                 queue, idx, publishResults, guardSeen, attempts, pubMarks,
                 procMarks>>

\* TG_TOKEN or TELEGRAM_CHANNEL_ID is not set: initTelegramBot throws once
\* the tracker is constructed, and publishEarlyDetection rejects
StartRunNoCredentials ==
  /\ pc = "idle"
  /\ runs < MaxRuns
  /\ runs' = runs + 1
  /\ tracker' = loadTracker(file, now)
  /\ pc' = "aborted"
  /\ UNCHANGED ingestVars
  /\ UNCHANGED <<now, ticks, apiVars, file, originalSignals, analyses, approved,
                 queue, idx, publishResults, guardSeen, attempts, pubMarks,
                 procMarks>>

\* load the tracker and the analyses, categorise and deduplicate
StartRun ==
  /\ pc = "idle"
  /\ runs < MaxRuns
  /\ runs' = runs + 1
  /\ \E list \in AnalysisLists :
       /\ list # <<>>
       /\ tracker' = loadTracker(file, now)
       /\ originalSignals' = DailySignals
       /\ analyses' = list
       /\ approved' = approvedAnalyses(tracker', DailySignals, list, now)
       /\ queue' = publishQueue(approved')
  /\ idx' = 0
  /\ publishResults' = NoResults
  /\ guardSeen' = FALSE
  /\ attempts' = <<>>
  /\ pubMarks' = {}
  /\ procMarks' = {}
  /\ pc' = "summary"
  /\ UNCHANGED ingestVars
  /\ UNCHANGED <<now, ticks, apiVars, file>>

\* the summary message is sent first
SendSummary ==
  /\ pc = "summary"
  /\ \E success \in BOOLEAN :
       publishResults' =
         IF success
         THEN [publishResults EXCEPT !.total = @ + 1, !.sent = @ + 1]
         ELSE [publishResults EXCEPT !.total = @ + 1, !.failed = @ + 1,
                 !.failedMessages = Append(@, [type |-> "summary", message |-> <<>>])]
  /\ idx' = 1
  /\ pc' = "loop"
  /\ UNCHANGED ingestVars
  /\ UNCHANGED <<trackerVars, apiVars, file, runs, originalSignals, analyses,
                 approved, queue, guardSeen, attempts, pubMarks, procMarks>>

\* one iteration of a category loop up to its send: markAsProcessed (hot and
\* early loops only), then the final duplicate guard
LoopItem ==
  /\ pc = "loop"
  /\ idx <= Len(queue)
  /\ LET item == queue[idx]
         signal == signalForTracking(originalSignals, item.analysis)
         key == generateSignalKey(signal)
         marked == IF marksProcessedFirst(item.category)
                   THEN markAsProcessed(tracker, signal, now) ELSE tracker
         preSendDupCheck == checkDeduplication(marked, signal, dedupOptions, now)
     IN  /\ tracker' = marked
         /\ procMarks' = IF marksProcessedFirst(item.category)
                         THEN procMarks \cup {key} ELSE procMarks
         /\ guardSeen' = (key \in DOMAIN marked.published)
         /\ IF preSendDupCheck.isDuplicate
            THEN /\ idx' = idx + 1
                 /\ pc' = "loop"
                 /\ UNCHANGED <<publishResults, attempts>>
            ELSE /\ pc' = "send"
                 /\ publishResults' =
                      IF marksProcessedFirst(item.category)
                      THEN [publishResults EXCEPT !.total = @ + 1]
                      ELSE publishResults
                 /\ attempts' = Append(attempts,
                      [i |-> idx, key |-> key, category |-> item.category,
                       state |-> statusOf(marked, key), result |-> "pending"])
                 /\ UNCHANGED idx
  /\ UNCHANGED ingestVars
  /\ UNCHANGED <<now, ticks, apiVars, file, runs, originalSignals, analyses,
                 approved, queue, pubMarks>>

\* mutant: markAsPublished is not followed by finalize
SendResultNoFinalize ==
  /\ pc = "send"
  /\ \E success \in BOOLEAN :
       LET item == queue[idx]
           signal == signalForTracking(originalSignals, item.analysis)
           key == generateSignalKey(signal)
           counted == marksProcessedFirst(item.category)
       IN  /\ attempts' = [attempts EXCEPT ![Len(attempts)].result =
                             IF success THEN "ok" ELSE "failed"]
           /\ IF success
              THEN /\ tracker' = markAsPublished(tracker, signal, now)
                   /\ UNCHANGED file
                   /\ pubMarks' = pubMarks \cup {key}
                   /\ publishResults' =
                        IF counted THEN [publishResults EXCEPT !.sent = @ + 1]
                        ELSE publishResults
              ELSE /\ publishResults' =
                        IF counted
                        THEN [publishResults EXCEPT !.failed = @ + 1,
                                !.failedMessages = Append(@,
                                   [type |-> item.category,
                                    message |-> item.analysis.project_name])]
                        ELSE publishResults
                   /\ UNCHANGED <<tracker, file, pubMarks>>
  /\ idx' = idx + 1
  /\ pc' = "loop"
  /\ UNCHANGED ingestVars
  /\ UNCHANGED <<now, ticks, apiVars, runs, originalSignals, analyses, approved,
                 queue, guardSeen, procMarks>>

\* mutant: the item is marked published whatever the send returned
SendResultAlwaysMarks ==
  /\ pc = "send"
  /\ \E success \in BOOLEAN :
       LET item == queue[idx]
           signal == signalForTracking(originalSignals, item.analysis)
           key == generateSignalKey(signal)
       IN  /\ attempts' = [attempts EXCEPT ![Len(attempts)].result =
                             IF success THEN "ok" ELSE "failed"]
           /\ tracker' = markAsPublished(tracker, signal, now)
           /\ file' = saveTracker(tracker', now)
           /\ pubMarks' = pubMarks \cup {key}
  /\ idx' = idx + 1
  /\ pc' = "loop"
  /\ UNCHANGED ingestVars
  /\ UNCHANGED <<now, ticks, apiVars, runs, originalSignals, analyses, approved,
                 queue, guardSeen, procMarks, publishResults>>

\* sendToTelegramBot returned for the current item
SendResult ==
  /\ pc = "send"
  /\ \E success \in BOOLEAN :
       LET item == queue[idx]
           signal == signalForTracking(originalSignals, item.analysis)
           key == generateSignalKey(signal)
           counted == marksProcessedFirst(item.category)
       IN  /\ attempts' = [attempts EXCEPT ![Len(attempts)].result =
                             IF success THEN "ok" ELSE "failed"]
           /\ IF success
              THEN /\ tracker' = markAsPublished(tracker, signal, now)
                   /\ file' = saveTracker(tracker', now)
                   /\ pubMarks' = pubMarks \cup {key}
                   /\ publishResults' =
                        IF counted THEN [publishResults EXCEPT !.sent = @ + 1]
                        ELSE publishResults
              ELSE /\ publishResults' =
                        IF counted
                        THEN [publishResults EXCEPT !.failed = @ + 1,
                                !.failedMessages = Append(@,
                                   [type |-> item.category,
                                    message |-> item.analysis.project_name])]
                        ELSE publishResults
                   /\ UNCHANGED <<tracker, file, pubMarks>>
  /\ idx' = idx + 1
  /\ pc' = "loop"
  /\ UNCHANGED ingestVars
  /\ UNCHANGED <<now, ticks, apiVars, runs, originalSignals, analyses, approved,
                 queue, guardSeen, procMarks>>

\* after the loops: the tracker is finalized and the run returns
FinishRun ==
  /\ pc = "loop"
  /\ idx > Len(queue)
  /\ file' = saveTracker(tracker, now)
  /\ pc' = "done"
  /\ UNCHANGED ingestVars
  /\ UNCHANGED <<trackerVars, apiVars, runs, originalSignals, analyses, approved,
                 queue, idx, publishResults, guardSeen, attempts, pubMarks,
                 procMarks>>

\* the process exits and its memory is gone; the next scheduled run may start
Exit ==
  /\ pc \in {"done", "aborted"}
  /\ pc' = "idle"
  /\ originalSignals' = <<>>
  /\ analyses' = <<>>
  /\ approved' = <<>>
  /\ queue' = <<>>
  /\ idx' = 0
  /\ publishResults' = NoResults
  /\ guardSeen' = FALSE
  /\ attempts' = <<>>
  /\ pubMarks' = {}
  /\ procMarks' = {}
  /\ UNCHANGED ingestVars
  /\ UNCHANGED <<trackerVars, apiVars, file, runs>>

Next ==
  \/ Tick
  \/ StartRunEmpty
  \/ StartRunNoCredentials
  \/ StartRun
  \/ SendSummary
  \/ LoopItem
  \/ SendResult
  \/ FinishRun
  \/ Exit

Spec == Init /\ [][Next]_vars

----------------------------------------------------------------------------
(* Two overlapping publishEarlyDetection processes.  Each has its own      *)
(* AdvancedDeduplication instance, loaded when the process starts; the      *)
(* tracker file and the clock are shared.  The counts of publishResults    *)
(* and the summary message read and write nothing of the tracker and are   *)
(* left to the sequential runs above.                                       *)

WatchFo == Analysis(<<"F", "o">>, <<"L">>, <<>>, <<>>, 40)
RiskBa == Analysis(<<"B", "a">>, <<>>, <<"y", "o">>, <<>>, 20)
HotFo == Analysis(<<"F", "o">>, <<"I">>, <<>>, <<>>, 80)

\* early_detection_results.json as the processes find it
RaceLists == {<<WatchFo>>, <<RiskBa>>, <<WatchFo, RiskBa>>, <<HotFo>>}

\* everything but the processes, the tracker file and the clock
raceFrame ==
  <<tracker, ret, calls, everPublished, pc, runs, originalSignals, analyses,
    approved, queue, idx, publishResults, guardSeen, attempts, pubMarks,
    procMarks, collection, collectionFiles, analysisTracker, analysisFile,
    passed, analysisRuns, dailySignals, collectRun, send, pipeline>>

InitRace == Init

\* the process constructs its tracker from the file, loads the analyses,
\* categorises and deduplicates them
RaceStart(p) ==
  /\ procs[p].pc = "idle"
  /\ \E list \in RaceLists :
       \E loaded \in {loadTracker(file, now)} :
         procs' = [procs EXCEPT ![p] =
           [pc |-> "loop", tracker |-> loaded,
            loaded |-> DOMAIN loaded.published,
            queue |-> publishQueue(approvedAnalyses(loaded, DailySignals, list, now)),
            idx |-> 1, attempts |-> <<>>, marks |-> {}]]
  /\ UNCHANGED <<file, now, ticks, raceFrame>>

\* mutant: the pre-send guard reads the tracker file again
RaceLoopItemReloading(p) ==
  /\ procs[p].pc = "loop"
  /\ procs[p].idx <= Len(procs[p].queue)
  /\ LET item == procs[p].queue[procs[p].idx]
         signal == signalForTracking(DailySignals, item.analysis)
         key == generateSignalKey(signal)
     IN  \E marked \in {IF marksProcessedFirst(item.category)
                        THEN markAsProcessed(loadTracker(file, now), signal, now)
                        ELSE loadTracker(file, now)} :
           procs' = [procs EXCEPT ![p] =
             IF checkDeduplication(marked, signal, dedupOptions, now).isDuplicate
             THEN [@ EXCEPT !.tracker = marked, !.idx = @ + 1,
                            !.marks = IF marksProcessedFirst(item.category)
                                      THEN @ \cup {key} ELSE @]
             ELSE [@ EXCEPT !.tracker = marked, !.pc = "send",
                            !.marks = IF marksProcessedFirst(item.category)
                                      THEN @ \cup {key} ELSE @,
                            !.attempts = Append(@, [key |-> key, result |-> "pending"])]]
  /\ UNCHANGED <<file, now, ticks, raceFrame>>

\* one iteration of a category loop up to its send, on the instance of the
\* process
RaceLoopItem(p) ==
  /\ procs[p].pc = "loop"
  /\ procs[p].idx <= Len(procs[p].queue)
  /\ LET item == procs[p].queue[procs[p].idx]
         signal == signalForTracking(DailySignals, item.analysis)
         key == generateSignalKey(signal)
     IN  \E marked \in {IF marksProcessedFirst(item.category)
                        THEN markAsProcessed(procs[p].tracker, signal, now)
                        ELSE procs[p].tracker} :
           procs' = [procs EXCEPT ![p] =
             IF checkDeduplication(marked, signal, dedupOptions, now).isDuplicate
             THEN [@ EXCEPT !.tracker = marked, !.idx = @ + 1,
                            !.marks = IF marksProcessedFirst(item.category)
                                      THEN @ \cup {key} ELSE @]
             ELSE [@ EXCEPT !.tracker = marked, !.pc = "send",
                            !.marks = IF marksProcessedFirst(item.category)
                                      THEN @ \cup {key} ELSE @,
                            !.attempts = Append(@, [key |-> key, result |-> "pending"])]]
  /\ UNCHANGED <<file, now, ticks, raceFrame>>

\* sendToTelegramBot returned to the process: on success markAsPublished
\* and finalize
RaceSendResult(p) ==
  /\ procs[p].pc = "send"
  /\ LET item == procs[p].queue[procs[p].idx]
         signal == signalForTracking(DailySignals, item.analysis)
         key == generateSignalKey(signal)
     IN  \E success \in BOOLEAN :
           IF success
           THEN \E marked \in {markAsPublished(procs[p].tracker, signal, now)} :
                  /\ procs' = [procs EXCEPT ![p] =
                       [@ EXCEPT !.tracker = marked, !.pc = "loop", !.idx = @ + 1,
                                 !.marks = @ \cup {key},
                                 !.attempts[Len(procs[p].attempts)].result = "ok"]]
                  /\ file' = saveTracker(marked, now)
           ELSE /\ procs' = [procs EXCEPT ![p] =
                       [@ EXCEPT !.pc = "loop", !.idx = @ + 1,
                                 !.attempts[Len(procs[p].attempts)].result = "failed"]]
                /\ UNCHANGED file
  /\ UNCHANGED <<now, ticks, raceFrame>>

\* after the loops the process finalizes its tracker and ends
RaceFinish(p) ==
  /\ procs[p].pc = "loop"
  /\ procs[p].idx > Len(procs[p].queue)
  /\ file' = saveTracker(procs[p].tracker, now)
  /\ procs' = [procs EXCEPT ![p].pc = "done"]
  /\ UNCHANGED <<now, ticks, raceFrame>>

NextRace ==
  \/ Tick
  \/ \E p \in Processes : RaceStart(p)
  \/ \E p \in Processes : RaceLoopItem(p)
  \/ \E p \in Processes : RaceSendResult(p)
  \/ \E p \in Processes : RaceFinish(p)

SpecRace == InitRace /\ [][NextRace]_vars

----------------------------------------------------------------------------
(* sendToTelegramBot: the copy of the publisher and the copy of the retry  *)
(* script, as state machines over the replies to their requests.           *)

\* maxRetries when the caller passes none, as all callers do
DefaultMaxRetries == 3

SendVariants == {"publisher", "retry"}

\* what a request ends with: the API answers ok with a result, answers ok
\* without a result, reports a Markdown parse error, a rate limit or another
\* error, or fetch / response.json() throws
Replies == {"ok", "ok without result", "parse error", "rate limit", "error", "throws"}

\* the end of an iteration that was counted: attempt++ and the loop test
countedAttempt(s) ==
  IF s.attempt + 1 > s.maxRetries
    THEN [s EXCEPT !.attempt = @ + 1, !.pc = "returned",
                   !.result = [success |-> FALSE]]
  ELSE [s EXCEPT !.attempt = @ + 1]

\* mutant: the retry after a parse error keeps parse_mode
sendIterationKeepsMarkdown(s, reply) ==
  LET seen == [s EXCEPT !.replies = Append(@, reply)]
  IN  CASE reply = "ok" ->
             [seen EXCEPT !.pc = "returned", !.result = [success |-> TRUE]]
        [] reply = "parse error" /\ s.variant = "publisher" /\ s.useParseMode ->
             seen
        [] OTHER -> countedAttempt(seen)

\* one iteration of the for loop: the request and what follows its reply
sendIteration(s, reply) ==
  LET seen == [s EXCEPT !.replies = Append(@, reply)]
  IN  CASE reply = "ok" ->
             [seen EXCEPT !.pc = "returned", !.result = [success |-> TRUE]]
        [] reply = "parse error" /\ s.variant = "publisher" /\ s.useParseMode ->
             [seen EXCEPT !.useParseMode = FALSE]
        [] OTHER -> countedAttempt(seen)

\* everything but the call of sendToTelegramBot
sendFrame ==
  <<tracker, now, ticks, ret, calls, everPublished, file, pc, runs,
    originalSignals, analyses, approved, queue, idx, publishResults, guardSeen,
    attempts, pubMarks, procMarks, collection, collectionFiles,
    analysisTracker, analysisFile, passed, analysisRuns, dailySignals,
    collectRun, procs, pipeline>>

InitSend == Init

\* sendToTelegramBot is called: attempt = 1, Markdown first
SendToTelegramBot ==
  /\ send.pc \in {"idle", "returned"}
  /\ \E variant \in SendVariants :
       send' = [pc |-> "request", variant |-> variant,
                maxRetries |-> DefaultMaxRetries, attempt |-> 1,
                useParseMode |-> TRUE, replies |-> <<>>,
                result |-> [success |-> FALSE]]
  /\ UNCHANGED sendFrame

\* the request of the current iteration ends
SendReply ==
  /\ send.pc = "request"
  /\ \E reply \in Replies : send' = sendIteration(send, reply)
  /\ UNCHANGED sendFrame

NextSend ==
  \/ SendToTelegramBot
  \/ SendReply

SpecSend == InitSend /\ [][NextSend]_vars

\* every request is answered or fails
SpecSendFair == SpecSend /\ WF_vars(SendReply)

----------------------------------------------------------------------------
(* The categories of an analysis: the four lists of publishEarlyDetection  *)
(* and the label of formatEarlyDetectionMessage, over the integer scores.  *)

MaxScore == 100

\* the lists an analysis is filtered into
categoryLists(analysis) ==
  {category \in {"hot", "early", "watch", "risk"} :
     \/ category = "hot" /\ isHot(analysis)
     \/ category = "early" /\ isEarly(analysis)
     \/ category = "watch" /\ isWatch(analysis)
     \/ category = "risk" /\ isRisk(analysis)}

\* the category formatEarlyDetectionMessage prints
categoryLabel(analysis) ==
  IF scoreOutOf10(analysis) >= 8 THEN "hot"
  ELSE IF scoreOutOf10(analysis) >= 6 THEN "early"
  ELSE IF scoreOutOf10(analysis) >= 4 THEN "watch"
  ELSE "risk"

InitCategorise == InitTracker

\* an analysis of some score is categorised and formatted
Categorise ==
  /\ calls < MaxCalls
  /\ calls' = calls + 1
  /\ \E score \in 1..MaxScore :
       LET analysis == Analysis(<<"F", "o">>, <<"L">>, <<>>, <<>>, score)
       IN  ret' = [op |-> "categorise", arg |-> score,
                   value |-> [lists |-> categoryLists(analysis),
                              label |-> categoryLabel(analysis)]]
  /\ UNCHANGED <<trackerVars, everPublished, runVars, ingestVars>>

NextCategorise == Categorise

SpecCategorise == InitCategorise /\ [][NextCategorise]_vars

----------------------------------------------------------------------------
(* The pipeline entry points: runCompletePhase of complete_phase.mjs, its   *)
(* later version with the pre-flight check, and runPipeline.  A phase is    *)
(* what it returns to the entry point: the number of signals, the number    *)
(* of analyses, or an error.                                                *)

\* complete_phase.mjs, the runCompletePhase with the pre-flight duplicate
\* check, run_pipeline.mjs
EntryPoints == {"complete_phase", "runCompletePhase", "runPipeline"}

\* the entry points that look at what a phase returned before they go on
guarded(entry) == entry \in {"runCompletePhase", "runPipeline"}

\* collectData throws, or returns the signals of the day
Phase1Outcomes == {[throws |-> TRUE, signals |-> 0]}
                    \cup {[throws |-> FALSE, signals |-> n] : n \in 0..2}

\* analyzeAllSignals throws or exits the process, returns
\* {gemini_analysis: null}, or returns results with some analyses
Phase2Outcomes ==
  {[throws |-> TRUE, null |-> FALSE, analyses |-> 0],
   [throws |-> FALSE, null |-> TRUE, analyses |-> 0]}
    \cup {[throws |-> FALSE, null |-> FALSE, analyses |-> n] : n \in 0..2}

\* publishEarlyDetection throws, or returns its counts
Phase3Outcomes == {[throws |-> TRUE, sent |-> 0]}
                    \cup {[throws |-> FALSE, sent |-> n] : n \in 0..2}

\* how an entry point ends: complete_phase.mjs exits the process, the
\* others return {success}
success(entry) == IF entry = "complete_phase" THEN "exit 0" ELSE "success"
failure(entry) == IF entry = "complete_phase" THEN "exit 1" ELSE "failure"

\* everything but the pipeline run
pipelineFrame ==
  <<tracker, now, ticks, ret, calls, everPublished, file, pc, runs,
    originalSignals, analyses, approved, queue, idx, publishResults, guardSeen,
    attempts, pubMarks, procMarks, collection, collectionFiles,
    analysisTracker, analysisFile, passed, analysisRuns, dailySignals,
    collectRun, procs, send>>

InitPipeline == Init

\* an entry point is started
PipelineStart ==
  /\ pipeline.pc \in {"idle", "ended", "failed"}
  /\ \E entry \in EntryPoints :
       pipeline' = [pc |-> "phase1", entry |-> entry, trace |-> <<>>,
                    signals |-> 0, analyses |-> 0, published |-> 0,
                    result |-> "none"]
  /\ UNCHANGED pipelineFrame

\* await collectData() and what the entry point does with its result
PipelinePhase1 ==
  /\ pipeline.pc = "phase1"
  /\ \E outcome \in Phase1Outcomes :
       pipeline' =
         [pipeline EXCEPT
            !.trace = Append(@, "collect"),
            !.signals = outcome.signals,
            !.pc = IF outcome.throws THEN "failed"
                   ELSE IF guarded(pipeline.entry) /\ outcome.signals = 0 THEN "ended"
                   ELSE "phase2",
            !.result = IF outcome.throws THEN failure(pipeline.entry)
                       ELSE IF guarded(pipeline.entry) /\ outcome.signals = 0
                         THEN "No signals to process"
                       ELSE @]
  /\ UNCHANGED pipelineFrame

\* await analyzeAllSignals() and what the entry point does with its result
PipelinePhase2 ==
  /\ pipeline.pc = "phase2"
  /\ \E outcome \in Phase2Outcomes :
       pipeline' =
         [pipeline EXCEPT
            !.trace = Append(@, "analyze"),
            !.analyses = outcome.analyses,
            !.pc = IF outcome.throws THEN "failed"
                   ELSE IF guarded(pipeline.entry)
                           /\ (outcome.null \/ outcome.analyses = 0) THEN "ended"
                   ELSE "phase3",
            !.result = IF outcome.throws THEN failure(pipeline.entry)
                       ELSE IF guarded(pipeline.entry)
                               /\ (outcome.null \/ outcome.analyses = 0)
                         THEN "No analysis results to publish"
                       ELSE @]
  /\ UNCHANGED pipelineFrame

\* await publishEarlyDetection()
PipelinePhase3 ==
  /\ pipeline.pc = "phase3"
  /\ \E outcome \in Phase3Outcomes :
       pipeline' =
         [pipeline EXCEPT
            !.trace = Append(@, "publish"),
            !.published = outcome.sent,
            !.pc = IF outcome.throws THEN "failed" ELSE "ended",
            !.result = IF outcome.throws THEN failure(pipeline.entry)
                       ELSE success(pipeline.entry)]
  /\ UNCHANGED pipelineFrame

NextPipeline ==
  \/ PipelineStart
  \/ PipelinePhase1
  \/ PipelinePhase2
  \/ PipelinePhase3

SpecPipeline == InitPipeline /\ [][NextPipeline]_vars

----------------------------------------------------------------------------
(* Claims *)

\* C1: once markAsPublished(A) was applied to a tracker instance,
\* checkAlreadyPublished(A) is true in every later state of the instance,
\* whatever calls follow.
C1_PublishOnceTracker ==
  \A s \in everPublished : checkAlreadyPublished(tracker, s)

\* a check of a published signal made after two other calls
C1_Witness ==
  /\ calls = 3
  /\ ret.op = "checkAlreadyPublished"
  /\ ret.arg \in everPublished
  /\ ret.value = TRUE

\* C2 as stated: after markAsPublished(A), checkDeduplication(A) with all
\* checks enabled reports a duplicate whose reasons include already_published,
\* whether A's link is empty or not.
C2_AsStated ==
  \A s \in everPublished, o \in OptionSets :
    LET r == checkDeduplication(tracker, s, o, now)
    IN  /\ r.isDuplicate
        /\ \E i \in DOMAIN r.reasons : r.reasons[i] = "already_published"

\* C2 amended: after markAsPublished(A), checkDeduplication(A) with all checks
\* enabled reports a duplicate with a single reason: already_published when
\* A's link is empty, url_already_processed when it is not (the key holds the
\* link, so the record of A is found by the URL check first).
C2_PublishedIsDuplicate ==
  \A s \in everPublished, o \in OptionSets :
    LET r == checkDeduplication(tracker, s, o, now)
    IN  /\ r.isDuplicate
        /\ s.link = <<>> => r.reasons = <<"already_published">>
        /\ s.link # <<>> => r.reasons = <<"url_already_processed">>

\* signals with and without a link were published and the linked one was
\* just checked
C2_Witness ==
  /\ \E s \in everPublished : s.link = <<>>
  /\ ret.op = "checkDeduplication"
  /\ ret.arg.signal \in everPublished
  /\ ret.arg.signal.link # <<>>
  /\ ret.value.reasons = <<"url_already_processed">>

\* C3: over sequential runs, no send is started for an analysis whose
\* composite key had a record in `published` at its pre-send check.
C3_NoSendOfKnownKey ==
  /\ pc = "send" => ~guardSeen
  /\ \A j \in 1..Len(attempts) : attempts[j].state = "unknown"

\* a watch or risk item of a second run is stopped by the guard because of a
\* record left by the first run
C3_Witness ==
  /\ runs = 2
  /\ pc = "loop"
  /\ idx > 1
  /\ guardSeen
  /\ queue[idx - 1].category \in {"watch", "risk"}
  /\ procMarks = {}
  /\ pubMarks = {}

\* C4 as stated: every approved hot or early analysis is marked processed,
\* then sent, then (on success) marked published within the run.
C4_AsStated ==
  pc = "done" =>
    \A i \in 1..Len(queue) :
      queue[i].category \in {"hot", "early"} =>
        LET key == generateSignalKey(signalForTracking(originalSignals,
                                                       queue[i].analysis))
        IN  /\ key \in procMarks
            /\ \E j \in 1..Len(attempts) :
                 /\ attempts[j].i = i
                 /\ attempts[j].result = "ok" => key \in pubMarks

\* C5: markAsPublished is applied to a key only after the send for it
\* returned success in the same run.
C5_PublishedOnlyAfterSuccess ==
  pubMarks \subseteq
    {attempts[j].key : j \in {n \in 1..Len(attempts) : attempts[n].result = "ok"}}

\* one send of the run failed and was not marked, another succeeded and was
C5_Witness ==
  /\ pubMarks # {}
  /\ \E j \in 1..Len(attempts) :
       attempts[j].result = "failed" /\ attempts[j].key \notin pubMarks

\* C6 as stated: whenever a send is started, markAsProcessed was applied to
\* the key in this run and its record has status processed.
C6_AsStated ==
  \A j \in 1..Len(attempts) :
    attempts[j].state = "processed" /\ attempts[j].key \in procMarks

\* C7 as stated: at the end of the run every key whose send failed has a
\* record with status processed.
C7_AsStated ==
  pc = "done" =>
    \A j \in 1..Len(attempts) :
      attempts[j].result = "failed" =>
        statusOf(tracker, attempts[j].key) = "processed"

rank(t, key) ==
  CASE statusOf(t, key) = "unknown" -> 0
    [] statusOf(t, key) = "processed" -> 1
    [] statusOf(t, key) = "published" -> 2

\* C8 as stated: within and across runs an identity only moves forward along
\* unknown, processed, published.
C8_AsStated ==
  [][\A key \in DOMAIN tracker.published :
       rank(tracker', key) >= rank(tracker, key)]_vars

\* C9 as stated: every record of `published` has status processed or
\* published.
C9_AsStated ==
  \A key \in DOMAIN tracker.published :
    tracker.published[key].status \in {"processed", "published"}

\* C9 amended: every record of `published` has status processed or no status
\* field; the record written by markAsProcessed has status processed, the one
\* written by markAsPublished has none.
C9_StatusProcessedOrAbsent ==
  /\ \A key \in DOMAIN tracker.published :
       tracker.published[key].status \in {"processed", Undefined}
  /\ ret.op = "markAsProcessed" =>
       tracker.published[generateSignalKey(ret.arg)].status = "processed"
  /\ ret.op = "markAsPublished" =>
       tracker.published[generateSignalKey(ret.arg)].status = Undefined

\* records of both kinds are held
C9_Witness ==
  /\ \E key \in DOMAIN tracker.published :
       tracker.published[key].status = "processed"
  /\ \E key \in DOMAIN tracker.published :
       tracker.published[key].status = Undefined

linksOf(t) ==
  {t.published[key].link : key \in DOMAIN t.published}
  \cup {t.content_hashes[key].link : key \in DOMAIN t.content_hashes}

\* C10 as stated: checkURLAlreadyProcessed(url) is true iff url is non-empty
\* and the lowercased link of some record of `published` or `content_hashes`
\* contains the cleaned url.
C10_AsStated ==
  \A url \in Urls :
    checkURLAlreadyProcessed(tracker, url) <=>
      /\ url # <<>>
      /\ \E link \in linksOf(tracker) :
           includes(toLowerCase(link), cleanUrlOf(url))

\* C10 amended: ... iff url is non-empty and the lowercased link of some
\* record with a non-empty link contains the cleaned url; so every non-empty
\* link held by a record is reported, whatever the key of the signal asking.
C10_UrlGuard ==
  /\ \A url \in Urls :
       checkURLAlreadyProcessed(tracker, url) <=>
         /\ url # <<>>
         /\ \E link \in linksOf(tracker) \ {<<>>} :
              includes(toLowerCase(link), cleanUrlOf(url))
  /\ \A link \in linksOf(tracker) \ {<<>>} :
       checkURLAlreadyProcessed(tracker, link)

\* a link marked under one source and title is found for a signal of another
C10_Witness ==
  /\ ret.op = "checkURLAlreadyProcessed"
  /\ ret.value = TRUE
  /\ ret.arg = SigSameLink.link
  /\ ~checkAlreadyPublished(tracker, SigSameLink)
  /\ checkAlreadyPublished(tracker, SigLinked)

keySetOf(item) == {collectionKeys(item)[i] : i \in 1..4}

\* C11 as stated: a signal none of whose keys the tracker holds is returned
\* in newSignals by filterNewSignals([S]), and a later filterNewSignals([S])
\* on the same instance returns it in skippedSignals; for the Collection
\* Tracker and the Analysis Tracker, also when link, title or source is
\* missing.
C11_AsStated ==
  [][/\ \A item \in Items :
          /\ calls' = calls + 1
          /\ ret'.op = "CollectionTracker.filterNewSignals"
          /\ ret'.arg = <<item>>
          => /\ keySetOf(item) \cap (DOMAIN collection.today \cup DOMAIN collection.global) = {}
                => /\ ret'.value = [newSignals |-> <<item>>, skippedSignals |-> <<>>]
                   /\ keySetOf(item) \subseteq DOMAIN collection'.today
             /\ keySetOf(item) \subseteq DOMAIN collection.today
                => ret'.value = [newSignals |-> <<>>, skippedSignals |-> <<item>>]
     /\ collection'.day = collection.day
          => DOMAIN collection.today \subseteq DOMAIN collection'.today
     /\ \A item \in Items :
          /\ calls' = calls + 1
          /\ ret'.op = "AnalysisTracker.filterNewSignals"
          /\ ret'.arg = <<item>>
          => /\ analysisSignalKey(item) \notin DOMAIN analysisTracker.analyzed
                => /\ ret'.value = [newSignals |-> <<item>>, skippedSignals |-> <<>>]
                   /\ analysisSignalKey(item) \in DOMAIN analysisTracker'.analyzed
             /\ analysisSignalKey(item) \in DOMAIN analysisTracker.analyzed
                => ret'.value = [newSignals |-> <<>>, skippedSignals |-> <<item>>]
     /\ DOMAIN analysisTracker.analyzed \subseteq DOMAIN analysisTracker'.analyzed
    ]_vars

\* C12: filterNewSignals checks and marks the signals one by one in input
\* order, so no two signals of newSignals share a key and every new signal
\* is marked; on an empty tracker the batch of three (the second repeating
\* the first with a tracking parameter) gives items 1 and 3 as new and
\* item 2 as skipped.
C12_FirstOccurrenceWins ==
  [][/\ calls' = calls + 1
     /\ ret'.op = "CollectionTracker.filterNewSignals"
     => LET new == ret'.value.newSignals
            skipped == ret'.value.skippedSignals
        IN  /\ \A i, j \in 1..Len(new) :
                 i # j => keySetOf(new[i]) \cap keySetOf(new[j]) = {}
            /\ \A i \in 1..Len(new) : keySetOf(new[i]) \subseteq DOMAIN collection'.today
            /\ Len(new) + Len(skipped) = Len(ret'.arg)
            /\ collection.today = <<>> /\ collection.global = <<>>
               /\ ret'.arg = <<ItemOne, ItemTwo, ItemThree>>
               => /\ new = <<ItemOne, ItemThree>>
                  /\ skipped = <<ItemTwo>>
    ]_vars

\* the batch of three was filtered by the first call
C12_Witness ==
  /\ calls = 1
  /\ ret.op = "CollectionTracker.filterNewSignals"
  /\ ret.arg = <<ItemOne, ItemTwo, ItemThree>>
  /\ ret.value.skippedSignals = <<ItemTwo>>

sourceOf(item) == IF item.source = <<>> THEN Unknown ELSE item.source

\* the normalized titles of the sample signals, computed once
NormalizedTitles == [item \in Items |-> normalizeTitle(item.title)]

\* C13 as stated: after markAsCollected(S1), a signal S2 with the same
\* normalized title but another source and another link is not reported as
\* collected (while one with the same normalized title and an empty link is).
C13_AsStated ==
  [][\A s2 \in Items :
       /\ calls' = calls + 1
       /\ ret'.op = "markAsCollected"
       /\ collection.today = <<>> /\ collection.global = <<>>
       /\ normalizeTitle(s2.title) = normalizeTitle(ret'.arg.title)
       /\ toLowerCase(sourceOf(s2)) # toLowerCase(sourceOf(ret'.arg))
       /\ toLowerCase(normalizeUrl(s2.link)) # toLowerCase(normalizeUrl(ret'.arg.link))
       => ~isAlreadyCollected(collection', s2, now')
    ]_vars

\* C13 amended: after markAsCollected(S1), every signal S2 with the same
\* normalized title is reported as collected, whatever its source and link
\* (the title-only key); two signals with the same normalized title and an
\* empty link are one case of it.
C13_TitleKeyCollides ==
  [][/\ calls' = calls + 1
     /\ ret'.op = "markAsCollected"
     => \A s2 \in Items :
          NormalizedTitles[s2] = NormalizedTitles[ret'.arg]
            => isAlreadyCollected(collection', s2, now')
    ]_vars

\* a signal is reported as collected through its title alone: its source
\* and link keys are not held
C13_Witness ==
  /\ ret.op = "isAlreadyCollected"
  /\ ret.arg = ItemTitleAgain
  /\ ret.value = TRUE
  /\ keySetOf(ItemTitleAgain) \cap DOMAIN collection.today
       = {collectionKeys(ItemTitleAgain)[3]}

\* C14 as stated: after markAsCollected(S1), every signal S2 whose link, or
\* whose normalized link, equals that of S1 is reported as collected, also
\* when its source and its title differ from those of S1.
C14_AsStated ==
  [][\A s2 \in Items :
       /\ calls' = calls + 1
       /\ ret'.op = "markAsCollected"
       /\ ret'.arg.link # <<>>
       /\ \/ s2.link = ret'.arg.link
          \/ normalizeUrl(s2.link) = normalizeUrl(ret'.arg.link)
       => isAlreadyCollected(collection', s2, now')
    ]_vars

\* C15 as stated: isAlreadyCollected(signal) is true iff one of the four
\* keys of the signal is in the today scope, or is in the global scope with
\* a timestamp at most 7 days old.
C15_AsStated ==
  \A item \in Items \cup {ItemTwo, ItemThree} :
    isAlreadyCollected(collection, item, now)
      <=> \E key \in keySetOf(item) :
            \/ key \in DOMAIN collection.today
            \/ /\ key \in DOMAIN collection.global
               /\ now - collection.global[key] <= SevenDays

\* C16: after a markAsCollected (a direct one, or one made by
\* filterNewSignals for a new signal) the global scope holds no entry older
\* than 30 days; no operation on the instance removes a global entry that is
\* at most 30 days old, neither from the instance nor from the saved file.
C16_RetentionPrune ==
  [][/\ /\ calls' = calls + 1
        /\ \/ ret'.op = "markAsCollected"
           \/ /\ ret'.op = "CollectionTracker.filterNewSignals"
              /\ ret'.value.newSignals # <<>>
        => \A key \in DOMAIN collection'.global :
             now' - collection'.global[key] <= ThirtyDays
     /\ collection'.day = collection.day
        => \A key \in DOMAIN collection.global :
             now - collection.global[key] <= ThirtyDays
               => key \in DOMAIN collection'.global
     /\ \A key \in DOMAIN collectionFiles.global :
          now - collectionFiles.global[key] <= ThirtyDays
            => key \in DOMAIN collectionFiles'.global
    ]_vars

\* a markAsCollected has dropped an entry the saved file still holds, 31 days
\* after it was written
C16_Witness ==
  /\ ret.op = "markAsCollected"
  /\ \E key \in DOMAIN collectionFiles.global \ DOMAIN collection.global :
       now - collectionFiles.global[key] = ThirtyDays + OneDay

\* C17: checkContentSimilarity(content, threshold).isDuplicate is true iff
\* the hash of the content is a stored content hash or some stored content
\* hash has a similarity of at least the threshold with it; a similarity
\* equal to the threshold gives a duplicate (reason similar_content), a
\* threshold one hundredth above the best similarity gives none.
C17_ThresholdInclusive ==
  [][/\ calls' = calls + 1
     /\ ret'.op = "checkContentSimilarity"
     => LET hash == generateContentHash(ret'.arg[1])
            threshold == ret'.arg[2]
            stored == DOMAIN tracker.content_hashes
            similarityOf(h) == calculateSimilarity(hash, h)
        IN  /\ ret'.value.isDuplicate
                 <=> \/ hash \in stored
                     \/ \E h \in stored :
                          similarityOf(h)[1] * 100 >= threshold * similarityOf(h)[2]
            /\ ret'.value.isDuplicate
                 => ret'.value.reason = IF hash \in stored THEN "exact_content_match"
                                                           ELSE "similar_content"
    ]_vars

\* a content whose hash agrees with the only stored hash in 4 of 5
\* characters is a duplicate at the threshold 0.80
C17_Witness ==
  /\ ret.op = "checkContentSimilarity"
  /\ ret.arg = <<<<"y", "o", "l", "p">>, DefaultContentThreshold>>
  /\ ret.value = [isDuplicate |-> TRUE, reason |-> "similar_content"]
  /\ DOMAIN tracker.content_hashes = {generateContentHash(SigSameLink.content)}
  /\ calculateSimilarity(generateContentHash(<<"y", "o", "l", "p">>),
                         generateContentHash(SigSameLink.content)) = <<4, 5>>

C19_AsStated ==
  [][calls' = calls + 1 =>
       /\ /\ ret'.op = "markAsCollected"
          /\ keySetOf(ret'.arg) \ {Proto}
               \subseteq DOMAIN collection.today \cap DOMAIN collection.global
          => /\ Cardinality(DOMAIN collection'.today) = Cardinality(DOMAIN collection.today)
             /\ Cardinality(DOMAIN collection'.global) = Cardinality(DOMAIN collection.global)
       /\ /\ ret'.op = "markAsAnalyzed"
          /\ analysisSignalKey(ret'.arg) \in DOMAIN analysisTracker.analyzed
          => Cardinality(DOMAIN analysisTracker'.analyzed)
               = Cardinality(DOMAIN analysisTracker.analyzed)
       /\ \/ /\ ret'.op = "markAsPublished"
             /\ ret'.arg \in everPublished
          \/ /\ ret'.op = "markAsProcessed"
             /\ generateSignalKey(ret'.arg) \in DOMAIN tracker.published
             /\ tracker.published[generateSignalKey(ret'.arg)].status = "processed"
          => /\ DOMAIN tracker'.published = DOMAIN tracker.published
             /\ DOMAIN tracker'.content_hashes = DOMAIN tracker.content_hashes
             /\ DOMAIN tracker'.title_hashes = DOMAIN tracker.title_hashes
             /\ DOMAIN tracker'.source_hashes = DOMAIN tracker.source_hashes
             /\ \A sourceKey \in DOMAIN tracker.source_hashes :
                  Len(tracker'.source_hashes[sourceKey])
                    = Len(tracker.source_hashes[sourceKey])
    ]_vars

\* C20: checkDeduplication returns the single reason url_already_processed
\* when the URL check hits, else the single reason already_published when
\* the published check hits, else the reasons of the content, title and
\* source checks that hit, in this order; isDuplicate is true iff the
\* reasons are not empty.
C20_CheckOrder ==
  [][/\ calls' = calls + 1
     /\ ret'.op = "checkDeduplication"
     => LET signal == ret'.arg.signal
            o == ret'.arg.options
            urlHit == signal.link # <<>>
                      /\ checkURLAlreadyProcessed(tracker, signal.link)
            publishedHit == checkAlreadyPublished(tracker, signal)
            content == checkContentSimilarity(tracker, signal.content,
                                              o.contentSimilarityThreshold)
            title == checkTitleSimilarity(tracker, signal.title,
                                          o.titleSimilarityThreshold)
            source == checkSourceFrequency(tracker, signal.source,
                                           o.maxSourcePerHour, now)
            hits == (IF signal.content # <<>> /\ content.isDuplicate
                     THEN <<content.reason>> ELSE <<>>)
                    \o (IF signal.title # <<>> /\ title.isDuplicate
                        THEN <<title.reason>> ELSE <<>>)
                    \o (IF signal.source # <<>> /\ source.isDuplicate
                        THEN <<source.reason>> ELSE <<>>)
        IN  /\ ret'.value.reasons =
                 IF urlHit THEN <<"url_already_processed">>
                 ELSE IF publishedHit THEN <<"already_published">>
                 ELSE hits
            /\ ret'.value.isDuplicate <=> ret'.value.reasons # <<>>
    ]_vars

\* a signal is rejected for two accumulated reasons
C20_Witness ==
  /\ ret.op = "checkDeduplication"
  /\ Len(ret.value.reasons) >= 2
  /\ ret.value.reasons[Len(ret.value.reasons)] = "source_frequency_limit"

\* C21: filterSignalsForPublishing classifies a prefix of its input, in
\* order, as approved or duplicate by checkDeduplication; approved never
\* holds more signals than the cap maxSignalsPerRun (a cap of at least 1);
\* the prefix ends before the end of the input only when the cap is filled,
\* and the signals after it are in none of approved, duplicates, skipped.
C21_CapBounds ==
  [][/\ calls' = calls + 1
     /\ ret'.op = "filterSignalsForPublishing"
     => LET signals == ret'.arg.signals
            o == ret'.arg.options
            result == ret'.value
            seen == Len(result.approved) + Len(result.duplicates) + Len(result.skipped)
            isDup(signal) == checkDeduplication(tracker, signal, o, now).isDuplicate
            isNew(signal) == ~isDup(signal)
        IN  /\ Len(result.approved) <= o.maxSignalsPerRun
            /\ seen <= Len(signals)
            /\ seen < Len(signals) =>
                 /\ Len(result.approved) = o.maxSignalsPerRun
                 /\ result.approved[Len(result.approved)] = signals[seen]
            /\ result.approved = SelectSeq(SubSeq(signals, 1, seen), isNew)
            /\ [i \in 1..Len(result.duplicates) |-> result.duplicates[i].signal]
                 = SelectSeq(SubSeq(signals, 1, seen), isDup)
            /\ result.skipped = <<>>
    ]_vars

\* the cap of one was filled before the end of the input
C21_Witness ==
  /\ ret.op = "filterSignalsForPublishing"
  /\ ret.arg.options.maxSignalsPerRun = 1
  /\ Len(ret.value.approved) = 1
  /\ Len(ret.value.approved) + Len(ret.value.duplicates) < Len(ret.arg.signals)

\* C22: markAsProcessed(signal) writes a record with status 'processed'
\* under the key of the signal into `published` and, for a non-empty
\* content, an entry under the content hash into `content_hashes`; it leaves
\* every other entry, `title_hashes` and `source_hashes` as they were, so
\* checkSourceFrequency counts the same before and after.
C22_ProcessedFrame ==
  [][/\ calls' = calls + 1
     /\ ret'.op = "markAsProcessed"
     => LET signal == ret'.arg
            signalKey == generateSignalKey(signal)
            contentHash == generateContentHash(signal.content)
            written == IF signal.content = <<>> THEN {} ELSE {contentHash}
        IN  /\ DOMAIN tracker'.published = DOMAIN tracker.published \cup {signalKey}
            /\ tracker'.published[signalKey].status = "processed"
            /\ \A key \in DOMAIN tracker.published \ {signalKey} :
                 tracker'.published[key] = tracker.published[key]
            /\ DOMAIN tracker'.content_hashes = DOMAIN tracker.content_hashes \cup written
            /\ \A hash \in written : tracker'.content_hashes[hash].status = "processed"
            /\ \A hash \in DOMAIN tracker.content_hashes \ written :
                 tracker'.content_hashes[hash] = tracker.content_hashes[hash]
            /\ tracker'.title_hashes = tracker.title_hashes
            /\ tracker'.source_hashes = tracker.source_hashes
            /\ \A s \in Signals :
                 checkSourceFrequency(tracker', s.source, 1, now')
                   = checkSourceFrequency(tracker, s.source, 1, now)
    ]_vars

\* a signal with source, title and content was marked as processed and its
\* source has no timestamp, its title no hash
C22_Witness ==
  /\ ret.op = "markAsProcessed"
  /\ ret.arg.source # <<>> /\ ret.arg.content # <<>> /\ ret.arg.title # <<>>
  /\ tracker.published[generateSignalKey(ret.arg)].status = "processed"
  /\ generateContentHash(ret.arg.content) \in DOMAIN tracker.content_hashes
  /\ tracker.source_hashes = <<>>
  /\ tracker.title_hashes = <<>>
  /\ ~checkSourceFrequency(tracker, ret.arg.source, 1, now).isDuplicate

\* C23: analysis identity never expires.  A key recorded in
\* data/analysis_tracker.json stays recorded over every later Phase 2 run,
\* however much time passed; the signals a run passes to the scorer are the
\* enriched forms, in batch order, of batch signals whose key the tracker
\* file did not hold when the run started, each passed once; and after the
\* run the file holds the key of every signal of the batch.
C23_NeverExpires ==
  [][analysisRuns' = analysisRuns + 1
     => LET recorded(f) == IF f.exists /\ f.parseable
                              THEN DOMAIN f.data.analyzed ELSE {}
            before == recorded(analysisFile)
            after == recorded(analysisFile')
            batch == passed'.batch
            sent == passed'.signals
        IN  /\ before \subseteq after
            /\ \A item \in Items :
                 analysisSignalKey(item) \in before
                   => isAlreadyAnalyzed(analysisFile'.data, item)
            /\ \A i \in 1..Len(batch) :
                 batch # <<>> => analysisSignalKey(batch[i]) \in after
            /\ \E pick \in [1..Len(sent) -> 1..Len(batch)] :
                 /\ \A i \in 1..Len(sent) :
                      /\ sent[i] = enrich(batch[pick[i]])
                      /\ analysisSignalKey(batch[pick[i]]) \notin before
                      /\ \A j \in 1..(pick[i] - 1) :
                           analysisSignalKey(batch[j]) # analysisSignalKey(batch[pick[i]])
                 /\ \A i, j \in 1..Len(sent) : i < j => pick[i] < pick[j]
    ]_vars

\* a second run, days after the first, passes the new signal of its batch
\* to the scorer and not the one recorded by the first run
C23_Witness ==
  /\ analysisRuns = 2
  /\ Len(passed.batch) = 2
  /\ Len(passed.signals) = 1
  /\ \E i \in 1..2 :
       LET key == analysisSignalKey(passed.batch[i])
       IN  /\ passed.signals[1] # enrich(passed.batch[i])
           /\ now - analysisFile.data.analyzed[key].timestamp >= ThirtyDays

C25_AsStated ==
  [][/\ calls' = calls + 1
     /\ ret'.op \in DedupOps
     /\ tracker.absent # {}
     => ~ret'.value.threw
    ]_vars

\* C26 as stated: normalizeUrl keeps the query parameters that are no
\* tracking parameters, so that a link with the parameter id=5 still
\* carries it afterwards; the empty link gives the empty string.
C26_AsStated ==
  [][/\ calls' = calls + 1
     /\ ret'.op = "normalizeUrl"
     => /\ ret'.arg = <<>> => ret'.value = <<>>
        /\ includes(ret'.arg, <<"i", "d", "=", "5">>)
             => includes(ret'.value, <<"i", "d", "=", "5">>)
    ]_vars

\* C27 as stated: the key of the Analysis Tracker and of the Deduplication
\* Tracker is built from the normalized link, so that a signal whose source
\* and title agree with those of a recorded signal and whose link differs
\* from its link by a tracking parameter or a trailing slash only is found
\* recorded.
C27_AsStated ==
  \A one, other \in {ItemOne, ItemTwo, ItemThree} :
    ( /\ toLowerCase(one.source) = toLowerCase(other.source)
      /\ toLowerCase(normalizeUrl(one.link)) = toLowerCase(normalizeUrl(other.link))
      /\ SelectSeq(toLowerCase(one.title), isLowerAlnum)
           = SelectSeq(toLowerCase(other.title), isLowerAlnum) )
    => /\ isAlreadyAnalyzed(analysisLoadTracker(analysisFile, now), one)
            => isAlreadyAnalyzed(analysisLoadTracker(analysisFile, now), other)
       /\ checkAlreadyPublished(loadTracker(file, now), enrich(one))
            => checkAlreadyPublished(loadTracker(file, now), enrich(other))

\* C28: in every run of collectData all three collectors are queried, in
\* order; a collector that throws leaves an error under its name and
\* contributes no signal, a collector that returns leaves no error; and
\* whichever collectors throw, the daily batch of the day is written and
\* holds (up to merging of duplicates) what the other collectors
\* contributed, and the Collection Tracker is flushed with those signals
\* recorded.
C28_CollectorErrorsContained ==
  [][collectRun'.runs = collectRun.runs + 1
     => LET outcomes == collectRun'.outcomes
            report == collectRun'.report
            day == dateOf(now')
            names == {Sources[i] : i \in 1..Len(Sources)}
            failed == {report.errors[i].source : i \in 1..Len(report.errors)}
            flushed == collectionLoadTracker(collectionFiles', now')
        IN  /\ report.queried = Sources
            /\ failed = {source \in names : outcomes[source].throws}
            /\ Len(report.errors) = Cardinality(failed)
            /\ \A source \in failed : report.contributed[source] = <<>>
            /\ report.saved
            /\ day \in DOMAIN dailySignals'
            /\ collectionFiles' = collectionSaveTracker(collection', collectionFiles)
            /\ \A source \in names \ failed :
                 \A i \in 1..Len(report.contributed[source]) :
                   LET signal == report.contributed[source][i]
                   IN  /\ signal \in {outcomes[source].signals[k] :
                                        k \in 1..Len(outcomes[source].signals)}
                       /\ isAlreadyCollected(flushed, signal, now')
                       /\ \E k \in 1..Len(dailySignals'[day]) :
                            mergeKeys(dailySignals'[day][k]) \cap mergeKeys(signal) # {}
    ]_vars

\* a run in which the GitHub collector threw and the Telegram collector
\* returned a new signal: the error is reported, the signal is in the batch
\* of the day and in the flushed tracker
C28_Witness ==
  /\ collectRun.runs > 0
  /\ collectRun.outcomes.github.throws
  /\ collectRun.report.errors = <<[source |-> "github"]>>
  /\ collectRun.report.queried = Sources
  /\ collectRun.report.contributed.telegram = <<ItemThree>>
  /\ dateOf(now) \in DOMAIN dailySignals
  /\ \E k \in 1..Len(dailySignals[dateOf(now)]) :
       dailySignals[dateOf(now)][k].link = ItemThree.link
  /\ isAlreadyCollected(collectionLoadTracker(collectionFiles, now), ItemThree, now)

\* C29 as stated: every send that failed in a run is recorded in
\* publishResults.failedMessages under its category and counted in
\* publishResults.failed.
C29_AsStated ==
  LET failedSends == {i \in 1..Len(attempts) : attempts[i].result = "failed"}
      recorded == {i \in 1..Len(publishResults.failedMessages) :
                     publishResults.failedMessages[i].type # "summary"}
  IN  /\ publishResults.failed >= Cardinality(failedSends)
      /\ \A i \in failedSends :
           \E k \in recorded :
             publishResults.failedMessages[k].type = attempts[i].category

\* C30: a run that finds the credentials missing ends before anything is
\* sent, and neither the records of the tracker nor the tracker file
\* change: the instance holds what the file held, no send was attempted,
\* and from the aborted run only the exit of the process follows.
C30_NoCredentialsNoEffect ==
  [][/\ pc' = "aborted" /\ pc = "idle"
          => /\ file' = file
             /\ tracker' = loadTracker(file, now)
             /\ attempts' = <<>>
             /\ publishResults' = NoResults
             /\ pubMarks' = {} /\ procMarks' = {}
     /\ pc = "aborted"
          => /\ pc' \in {"aborted", "idle"}
             /\ file' = file
             /\ tracker'.published = tracker.published
             /\ attempts' = <<>>
    ]_vars

\* a second run of a day finds the credentials missing after the first run
\* published an analysis
C30_Witness ==
  /\ pc = "aborted"
  /\ runs = 2
  /\ file.exists
  /\ file.data.published # <<>>
  /\ tracker = file.data
  /\ attempts = <<>>

\* C31 as stated: within one run the external send is started at most once
\* per composite key; after a failed send no second send is started under
\* the same key in that run.
C31_AsStated ==
  \A i, j \in 1..Len(attempts) :
    i # j => attempts[i].key # attempts[j].key

\* C32: two overlapping runs share nothing but the tracker file.  The
\* instance of a process holds only the records that were in the file when
\* the process started and the records it wrote itself, so its pre-send
\* check never sees what the other process did since; and every flush
\* replaces the whole file by the instance of the flushing process.  Hence
\* both processes can send the same identity, and a flush can drop a record
\* the other process wrote.
C32_OverlappingRunsRace ==
  [][/\ \A p \in Processes :
          DOMAIN procs'[p].tracker.published
            \subseteq procs'[p].loaded \cup procs'[p].marks
     /\ file' # file
          => \E p \in Processes :
               /\ procs'[p] # procs[p]
               /\ file' = saveTracker(procs'[p].tracker, now)
    ]_vars

\* both processes have sent the same identity with success, and the file
\* lacks the record of a successful send of one of them
C32_Witness ==
  /\ \E i \in 1..Len(procs[1].attempts), j \in 1..Len(procs[2].attempts) :
       /\ procs[1].attempts[i].key = procs[2].attempts[j].key
       /\ procs[1].attempts[i].result = "ok"
       /\ procs[2].attempts[j].result = "ok"
  /\ \E p \in Processes : \E i \in 1..Len(procs[p].attempts) :
       /\ procs[p].attempts[i].result = "ok"
       /\ procs[p].attempts[i].key \notin DOMAIN file.data.published

\* the requests of the call that were not counted: the first request of the
\* publisher's copy that ended with a Markdown parse error
uncountedRequests(s) ==
  IF s.variant = "publisher"
     /\ \E i \in 1..Len(s.replies) : s.replies[i] = "parse error"
  THEN 1 ELSE 0

C34_PublishMarksDurable ==
  pc \in {"loop", "send", "done"}
    => /\ \A key \in pubMarks : file.exists /\ key \in DOMAIN file.data.published
       /\ \A i \in 1..Len(attempts) :
            attempts[i].result = "ok" => attempts[i].key \in pubMarks

\* a send is under way after another send of the run succeeded
C34_Witness ==
  /\ pc = "send"
  /\ pubMarks # {}
  /\ \E i \in 1..Len(attempts) : attempts[i].result = "ok"
  /\ attempts[Len(attempts)].result = "pending"

\* C35 as stated (its first half): a signal of the batch whose key a Phase 2
\* run adds to the persisted Analysis Tracker was passed to the scoring
\* collaborator in that run.
C35_AsStated ==
  [][analysisRuns' = analysisRuns + 1
     => \A i \in 1..Len(passed'.batch) :
          LET signal == passed'.batch[i]
              recorded(f) == f.exists /\ analysisSignalKey(signal) \in DOMAIN f.data.analyzed
          IN  (recorded(analysisFile') /\ ~recorded(analysisFile))
                => \E k \in 1..Len(passed'.signals) :
                     /\ passed'.signals[k].link = signal.link
                     /\ passed'.signals[k].title = signal.title
    ]_vars

\* C36 as stated: the composite key under which the filter stage checks an
\* analysis of the run (the key of enrichForDedup's result) is the key under
\* which the loops mark and guard it (the key of signalForTracking).
C36_AsStated ==
  \A i \in 1..Len(analyses) :
    generateSignalKey(enrichForDedup(originalSignals, analyses[i]))
      = generateSignalKey(signalForTracking(originalSignals, analyses[i]))

\* C37 as stated: an analysis of integer score 1..100 is in exactly one of
\* the hot, early, watch and risk lists, and that list is the category
\* formatEarlyDetectionMessage prints for it.
C37_AsStated ==
  ret.op = "categorise"
    => /\ Cardinality(ret.value.lists) = 1
       /\ ret.value.lists = {ret.value.label}

\* C38 as stated: filterNewSignals on an empty Collection Tracker returns
\* both signals of a batch of two whose titles normalize to the empty string
\* and whose sources and links differ.
C38_AsStated ==
  (/\ calls = 1
   /\ ret.op = "CollectionTracker.filterNewSignals"
   /\ Len(ret.arg) = 2
   /\ \A i \in 1..2 : normalizeTitle(ret.arg[i].title) = <<>>
   /\ ret.arg[1].source # ret.arg[2].source
   /\ normalizeUrl(ret.arg[1].link) # normalizeUrl(ret.arg[2].link))
    => ret.value.newSignals = ret.arg

\* C39 as stated: every entry point runs the phases in the order collect,
\* analyze, publish, and publishes only when Phase 1 returned at least one
\* signal and Phase 2 returned at least one analysis.
C39_AsStated ==
  /\ \E n \in 0..3 : pipeline.trace = SubSeq(<<"collect", "analyze", "publish">>, 1, n)
  /\ (\E i \in 1..Len(pipeline.trace) : pipeline.trace[i] = "publish")
       => pipeline.signals >= 1 /\ pipeline.analyses >= 1

\* C40: after every run of collectData no two signals of the batch of the
\* day share a key of mergeAndDedupe (exact link, link without query,
\* lowercased title, source:title, cleaned title; empty keys do not count);
\* every signal that was in the batch of the day before the run is in it
\* after the run; and of the signals the collectors contributed, one that
\* shares no key with the batch before the run nor with a signal contributed
\* before it is in the batch.
C40_BatchDuplicateFreeAndGrowing ==
  [][collectRun'.runs = collectRun.runs + 1
     => LET day == dateOf(now')
            before == IF day \in DOMAIN dailySignals THEN dailySignals[day] ELSE <<>>
            after == dailySignals'[day]
            contributed == collectRun'.report.contributed.github
                             \o collectRun'.report.contributed.telegram
                             \o collectRun'.report.contributed.rss
            same(a, b) == a.source = b.source /\ a.title = b.title /\ a.link = b.link
            kept(signal) == \E k \in 1..Len(after) : same(after[k], normalized(signal, now'))
        IN  /\ \A i, j \in 1..Len(after) :
                 i # j => mergeKeys(after[i]) \cap mergeKeys(after[j]) = {}
            /\ \A i \in 1..Len(before) : \E k \in 1..Len(after) : after[k] = before[i]
            /\ \A i \in 1..Len(contributed) :
                 (/\ \A k \in 1..Len(before) :
                       mergeKeys(before[k]) \cap mergeKeys(contributed[i]) = {}
                  /\ \A j \in 1..(i - 1) :
                       mergeKeys(contributed[j]) \cap mergeKeys(contributed[i]) = {})
                   => kept(contributed[i])
    ]_vars

\* a run whose batch holds a signal of an earlier run of the day and lacks a
\* signal a collector contributed, which has the link of the earlier one
C40_Witness ==
  /\ collectRun.runs = 2
  /\ collectRun.report.contributed.telegram = <<ItemThree>>
  /\ dateOf(now) \in DOMAIN dailySignals
  /\ \E k \in 1..Len(dailySignals[dateOf(now)]) :
       /\ dailySignals[dateOf(now)][k].link = ItemUntitled.link
       /\ dailySignals[dateOf(now)][k].source = ItemUntitled.source
  /\ \A k \in 1..Len(dailySignals[dateOf(now)]) :
       dailySignals[dateOf(now)][k].source # ItemThree.source

=============================================================================
